---------------------------- MODULE Spec2Model ----------------------------
(***************************************************************************)
(* Verification model of igolaizola/igogpt: the rate limit lock            *)
(* (internal/ratelimit), the fixed conversation memory                     *)
(* (pkg/memory/fixed), the command parser and the command runner           *)
(* (internal/command), the bing client and connection (pkg/bing) and the   *)
(* Auto loop (igogpt.go).                                                  *)
(*                                                                         *)
(* Each component has its own specification (SpecLock, SpecLockFair,       *)
(* SpecMem, SpecParse, SpecExec, SpecBing, SpecAuto): the actions of a     *)
(* component leave the variables of the other components unchanged.        *)
(***************************************************************************)
EXTENDS Integers, Sequences, FiniteSets, TLC

(***************************************************************************)
(* Bounds of the model.                                                    *)
(***************************************************************************)
\* number of goroutines that call Lock / LockWithDuration on one limiter
NumCallers == 2
\* largest base duration (in time units) handed to LockWithDuration
MaxDuration == 3
\* largest number of messages added to one memory
MaxHistory == 4
\* largest keepFirst policy of a memory
MaxKeepFirst == 2
\* largest number of JSON arrays in one text handed to Parse
MaxArrays == 2
\* largest number of objects in all arrays of such a text
MaxObjs == 3
\* largest number of requests in one batch handed to execute
MaxBatch == 3
\* number of goroutines that call Write on one bing connection
NumWriters == 2
\* largest number of chat frames built on one bing connection
MaxFrames == 2
\* largest cfg.Steps of an Auto loop
MaxSteps == 2
\* largest number of iterations of an Auto loop with cfg.Steps = 0
MaxIter == 3

VARIABLES
    \* ---- ratelimit.lock ------------------------------------------------
    duration,     \* lock.duration, the default set by New(d)
    lck,          \* lock.lck: TRUE while the sync.Mutex is locked
    pc,           \* position of every caller in Lock / the release closure
    arg,          \* the base duration d the caller passed
    dur,          \* the jittered d captured by the release closure
    timer,        \* time left on the caller's time.After(d) channel
    cancelled,    \* ctx.Done() of the context the caller passed is closed
    lastSelect,   \* how the last select of a release closure ended
    \* ---- fixed.fixedMemory ---------------------------------------------
    keepFirst,    \* fixedMemory.keepFirst
    maxTokens,    \* fixedMemory.maxTokens
    messages,     \* fixedMemory.messages: the stored slice
    added,        \* the messages passed to Add so far, in call order
    sumOut,       \* what the last call of Sum returned
    \* ---- command.Parse -------------------------------------------------
    src,          \* the arrays of objects the text was written from
    input,        \* the text handed to Parse
    parsed,       \* what Parse returned
    \* ---- command.runner ------------------------------------------------
    reqs,         \* the requests handed to execute
    idx,          \* the position of the range loop of execute in reqs
    results,      \* the results collected so far
    ran,          \* the handlers run so far, with their args, in run order
    exited,       \* the exit function given to New has been called
    execPc,       \* "idle", "running" (inside execute) or "done" (returned)
    \* ---- bing.Client / bing.conn ---------------------------------------
    chatPc,       \* position of Client.Chat
    chatLog,      \* the steps Chat has completed, in order
    connCtx,      \* conn.ctx: "live" or "cancelled"
    ws,           \* conn.ws: "none", "open" or "closed"
    pipe,         \* the io.Pipe of the conn: "open" or "closed"
    gate,         \* the mutex of Client.rateLimit is locked
    connLck,      \* conn.lck, the exchange mutex, is locked
    invocationID, \* conn.invocationID
    wpc,          \* position of every writer in conn.Write
    wlen,         \* len(message) of the writer's current call
    wres,         \* what the Write that has just returned returned
    wrap,         \* the responses.MessageWrapper of the writer's exchange
    frames,       \* the chat frames built by getRequest, in order
    staged,       \* the pending pipeWriter.Write calls of the goroutines
    rpc,          \* position of the reader in conn.Read
    rres,         \* how the Read that has just returned ended
    panicked,     \* a goroutine of the connection has panicked
    lastEnd,      \* how the latest exchange ended: "none" while in flight
    \* ---- Auto ----------------------------------------------------------
    cfgSteps,     \* cfg.Steps
    steps,        \* the step counter of the loop
    send,         \* the prompt the loop writes next
    recv,         \* the reply the loop has read
    autoCtx,      \* the context of the loop: "live" or "cancelled"
    autoPc,       \* position of Auto in its loop
    autoRet,      \* what Auto returned
    writes,       \* the number of calls of chat.Write so far
    written,      \* the prompt handed to the last chat.Write
    lastRun,      \* what the last runner.Run did
    \* ---- Bulk ----------------------------------------------------------
    inputs,       \* the groups of prompts read from the bulk input file
    group,        \* the position of the outer range loop in inputs
    prompt,       \* the position of the inner range loop in the group
    bulkCtx,      \* the context of Bulk: "live" or "cancelled"
    bulkExit,     \* the exit flag of Bulk
    chats,        \* the number of chats chatFunc has created
    pipeCur,      \* the rest of the reply being written to the chat's pipe
    pipeWait,     \* the replies whose goroutine waits to write to the pipe
    msgs,         \* the {in, out} pairs of the current group
    output,       \* the groups of pairs collected so far
    bulkPc,       \* position of Bulk
    bulkRet,      \* what Bulk returned
    outFile,      \* the groups written to the bulk output file
    \* ---- openai.rw ------------------------------------------------------
    rwUsers,      \* the goroutines that call Write on the chat
    rwCtx,        \* rw.ctx: "live", "cancelled", or "closed" after Close
    rwGate,       \* the mutex of Client.rateLimit is locked
    rwPc,         \* position of every writer in rw.Write
    rwRes,        \* what the Write that has just returned returned
    rwPrompt,     \* the message built from b by the writer's current call
    rwSlice,      \* m.messages as the writer's current Add has read it
    rwMessages,   \* the messages of the writer's completion request
    requests,     \* the ChatCompletion calls made so far, in order
    rwStaged,     \* the pending pipeWriter.Write calls of the goroutines
    delivered,    \* what the calls of Read returned, in order
    completed,    \* the replies of the Writes that returned nil, in order
    rwCalls       \* the number of calls of Write so far

lockVars == <<duration, lck, pc, arg, dur, timer, cancelled, lastSelect>>

memVars == <<keepFirst, maxTokens, messages, added, sumOut>>

parseVars == <<src, input, parsed>>

execVars == <<reqs, idx, results, ran, exited, execPc>>

bingVars == <<chatPc, chatLog, connCtx, ws, pipe, gate, connLck, invocationID,
              wpc, wlen, wres, wrap, frames, staged, rpc, rres,
              panicked, lastEnd>>

autoVars == <<cfgSteps, steps, send, recv, autoCtx, autoPc, autoRet, writes,
              written, lastRun>>

bulkVars == <<inputs, group, prompt, bulkCtx, bulkExit, chats, pipeCur,
              pipeWait, msgs, output, bulkPc, bulkRet, outFile>>

rwVars == <<rwUsers, rwCtx, rwGate, rwPc, rwRes, rwPrompt, rwSlice, rwMessages,
            requests, rwStaged, delivered, completed, rwCalls>>

vars == <<lockVars, memVars, parseVars, execVars, bingVars, autoVars,
          bulkVars, rwVars>>

\* what the actions of one component leave alone
notLockVars == <<memVars, parseVars, execVars, bingVars, autoVars,
                 bulkVars, rwVars>>
notMemVars == <<lockVars, parseVars, execVars, bingVars, autoVars,
                 bulkVars, rwVars>>
notParseVars == <<lockVars, memVars, execVars, bingVars, autoVars,
                 bulkVars, rwVars>>
notExecVars == <<lockVars, memVars, parseVars, bingVars, autoVars,
                 bulkVars, rwVars>>
notBingVars == <<lockVars, memVars, parseVars, execVars, autoVars,
                 bulkVars, rwVars>>
notAutoVars == <<lockVars, memVars, parseVars, execVars, bingVars,
                 bulkVars, rwVars>>
notBulkVars == <<lockVars, memVars, parseVars, execVars, bingVars,
                 autoVars, rwVars>>
\* the chat of the openai client works on a memory
notRwVars == <<lockVars, parseVars, execVars, bingVars, autoVars, bulkVars>>

(***************************************************************************)
(* The state of every component right after construction.                  *)
(***************************************************************************)
Callers == 1..NumCallers

\* ratelimit.New: an unlocked mutex, no caller inside Lock.
LockStart ==
    /\ lck = FALSE
    /\ pc = [p \in Callers |-> "idle"]
    /\ arg = [p \in Callers |-> 0]
    /\ dur = [p \in Callers |-> 0]
    /\ timer = [p \in Callers |-> 0]
    /\ cancelled = [p \in Callers |-> FALSE]
    /\ lastSelect = [who |-> 0, done |-> FALSE, left |-> 0]

NoSum == [status |-> "none", out |-> <<>>, tokens |-> 0]

\* fixed.NewFixedMemory: no message stored, Sum not called yet.
MemStart ==
    /\ messages = <<>>
    /\ added = <<>>
    /\ sumOut = NoSum

NotParsed == [status |-> "none", cmds |-> <<>>]

\* no text has been handed to Parse
ParseStart ==
    /\ src = <<>>
    /\ input = <<>>
    /\ parsed = NotParsed

\* command.New: nothing has been executed
ExecStart ==
    /\ idx = 1
    /\ results = <<>>
    /\ ran = <<>>
    /\ exited = FALSE

Writers == 1..NumWriters

\* no exchange: the writer has no responses.MessageWrapper
NoWrap == [wk |-> "none", final |-> FALSE, answer |-> "nil",
           chan |-> <<>>, closed |-> FALSE, n |-> 0]

\* bing.New: Chat has not been called, there is no connection yet
BingStart ==
    /\ chatPc = "idle"
    /\ chatLog = <<>>
    /\ connCtx = "live"
    /\ ws = "none"
    /\ pipe = "open"
    /\ gate = FALSE
    /\ connLck = FALSE
    /\ invocationID = 0
    /\ wpc = [w \in Writers |-> "idle"]
    /\ wlen = [w \in Writers |-> 0]
    /\ wres = [w \in Writers |-> "none"]
    /\ wrap = [w \in Writers |-> NoWrap]
    /\ frames = <<>>
    /\ staged = {}
    /\ rpc = "idle"
    /\ rres = "none"
    /\ panicked = FALSE
    /\ lastEnd = "none"

\* runner.Run has not been called
NoRun == [parse |-> "none", result |-> <<>>, ran |-> <<>>, exit |-> FALSE]

\* Auto is about to enter its loop: nothing written or read yet
AutoStart ==
    /\ steps = 0
    /\ recv = <<>>
    /\ autoCtx = "live"
    /\ autoPc = "check"
    /\ autoRet = [err |-> "none", by |-> "none"]
    /\ writes = 0
    /\ written = <<>>
    /\ lastRun = NoRun

\* Bulk is about to enter its loops: no chat created, nothing collected
BulkStart ==
    /\ group = 1
    /\ prompt = 1
    /\ bulkCtx = "live"
    /\ bulkExit = FALSE
    /\ chats = 0
    /\ pipeCur = <<>>
    /\ pipeWait = {}
    /\ msgs = <<>>
    /\ output = <<>>
    /\ bulkPc = "group"
    /\ bulkRet = "none"
    /\ outFile = "none"

\* the goroutines that can call Write on one chat
RwWriters == {1, 2}

\* no message built yet
NoMessage == [role |-> "none", content |-> "none", id |-> 0]

\* openai.Client.Chat: a chat on which nothing was written or read
RwStart ==
    /\ rwCtx = "live"
    /\ rwGate = FALSE
    /\ rwPc = [w \in RwWriters |-> "idle"]
    /\ rwRes = [w \in RwWriters |-> "none"]
    /\ rwPrompt = [w \in RwWriters |-> NoMessage]
    /\ rwSlice = [w \in RwWriters |-> <<>>]
    /\ rwMessages = [w \in RwWriters |-> <<>>]
    /\ requests = <<>>
    /\ rwStaged = {}
    /\ delivered = <<>>
    /\ completed = <<>>
    /\ rwCalls = 0

\* the components a specification does not exercise stay as constructed
LockIdle == duration = 0 /\ LockStart
MemIdle == keepFirst = 0 /\ maxTokens = 0 /\ MemStart
ParseIdle == ParseStart
ExecIdle == reqs = <<>> /\ execPc = "idle" /\ ExecStart
BingIdle == BingStart
AutoIdle == cfgSteps = 0 /\ send = <<>> /\ AutoStart
BulkIdle == inputs = <<>> /\ BulkStart
RwIdle == rwUsers = {} /\ RwStart

(***************************************************************************)
(* ratelimit: src/internal/google/google.go lines 47-93                    *)
(***************************************************************************)
Durations == {0, MaxDuration}

\* rand.Float64() is in [0,1): the factor 0.85 + rand*0.3 is in [0.85,1.15),
\* here in hundredths; time.Duration(float64) truncates.
JitterSteps == {0, 15, 29}

Jitter(d, r) == (d * (85 + r)) \div 100

InitLock ==
    /\ duration \in Durations
    /\ LockStart
    /\ MemIdle
    /\ ParseIdle
    /\ ExecIdle
    /\ BingIdle
    /\ AutoIdle
    /\ BulkIdle
    /\ RwIdle

\* A caller enters LockWithDuration(ctx, d) and reaches l.lck.Lock().
CallLockWithDuration(p, d) ==
    /\ pc[p] = "idle"
    /\ pc' = [pc EXCEPT ![p] = "locking"]
    /\ arg' = [arg EXCEPT ![p] = d]
    /\ UNCHANGED <<duration, lck, dur, timer, cancelled, lastSelect>>
    /\ UNCHANGED notLockVars

\* Lock(ctx) is LockWithDuration(ctx, l.duration).
CallLock(p) == CallLockWithDuration(p, duration)

\* l.lck.Lock() returns: the mutex is taken, d is jittered and the release
\* closure is returned to the caller.
Acquire(p, r) ==
    /\ pc[p] = "locking"
    /\ lck = FALSE
    /\ lck' = TRUE
    /\ dur' = [dur EXCEPT ![p] = Jitter(arg[p], r)]
    /\ pc' = [pc EXCEPT ![p] = "held"]
    /\ UNCHANGED <<duration, arg, timer, cancelled, lastSelect>>
    /\ UNCHANGED notLockVars

\* A variant of Release that unlocks the mutex before the cooldown.
ReleaseUnlockFirst(p) ==
    /\ pc[p] = "held"
    /\ pc' = [pc EXCEPT ![p] = "cooldown"]
    /\ timer' = [timer EXCEPT ![p] = dur[p]]
    /\ lck' = FALSE
    /\ UNCHANGED <<duration, arg, dur, cancelled, lastSelect>>
    /\ UNCHANGED notLockVars

\* The holder invokes the release closure: the Unlock is deferred and the
\* closure blocks in the select on ctx.Done() and time.After(d).
Release(p) ==
    /\ pc[p] = "held"
    /\ pc' = [pc EXCEPT ![p] = "cooldown"]
    /\ timer' = [timer EXCEPT ![p] = dur[p]]
    /\ UNCHANGED <<duration, lck, arg, dur, cancelled, lastSelect>>
    /\ UNCHANGED notLockVars

\* A variant of SelectDone that only waits for the timer.
SelectTimerOnly(p) ==
    /\ pc[p] = "cooldown"
    /\ timer[p] = 0
    /\ pc' = [pc EXCEPT ![p] = "unlocking"]
    /\ lastSelect' = [who |-> p, done |-> cancelled[p], left |-> timer[p]]
    /\ UNCHANGED <<duration, lck, arg, dur, timer, cancelled>>
    /\ UNCHANGED notLockVars

\* The select of the release closure proceeds: ctx.Done() is closed or the
\* timer has fired.
SelectDone(p) ==
    /\ pc[p] = "cooldown"
    /\ (cancelled[p] \/ timer[p] = 0)
    /\ pc' = [pc EXCEPT ![p] = "unlocking"]
    /\ lastSelect' = [who |-> p, done |-> cancelled[p], left |-> timer[p]]
    /\ UNCHANGED <<duration, lck, arg, dur, timer, cancelled>>
    /\ UNCHANGED notLockVars

\* The deferred l.lck.Unlock() runs and the release closure returns; the
\* closure and what it captured are garbage from here on.
Unlock(p) ==
    /\ pc[p] = "unlocking"
    /\ lck' = FALSE
    /\ pc' = [pc EXCEPT ![p] = "idle"]
    /\ arg' = [arg EXCEPT ![p] = 0]
    /\ dur' = [dur EXCEPT ![p] = 0]
    /\ timer' = [timer EXCEPT ![p] = 0]
    /\ UNCHANGED <<duration, cancelled, lastSelect>>
    /\ UNCHANGED notLockVars

\* One unit of time passes for every pending time.After channel.
Tick ==
    /\ \E p \in Callers : pc[p] = "cooldown" /\ timer[p] > 0
    /\ timer' = [p \in Callers |->
                    IF pc[p] = "cooldown" /\ timer[p] > 0
                    THEN timer[p] - 1 ELSE timer[p]]
    /\ UNCHANGED <<duration, lck, pc, arg, dur, cancelled, lastSelect>>
    /\ UNCHANGED notLockVars

\* The context a caller passes is cancelled.
Cancel(p) ==
    /\ ~cancelled[p]
    /\ cancelled' = [cancelled EXCEPT ![p] = TRUE]
    /\ UNCHANGED <<duration, lck, pc, arg, dur, timer, lastSelect>>
    /\ UNCHANGED notLockVars

NextLock ==
    \/ \E p \in Callers : CallLock(p)
    \/ \E p \in Callers, d \in Durations : CallLockWithDuration(p, d)
    \/ \E p \in Callers, r \in JitterSteps : Acquire(p, r)
    \/ \E p \in Callers : Release(p)
    \/ \E p \in Callers : SelectDone(p)
    \/ \E p \in Callers : Unlock(p)
    \/ Tick
    \/ \E p \in Callers : Cancel(p)

SpecLock == InitLock /\ [][NextLock]_vars

\* The release closure, once invoked, runs to completion when it can; no
\* fairness is assumed of time (Tick) or of the callers' own decisions.
SpecLockFair ==
    /\ SpecLock
    /\ \A p \in Callers : WF_vars(SelectDone(p))
    /\ \A p \in Callers : WF_vars(Unlock(p))

\* Callers that are between the return of Lock and the end of release.
Holders == {p \in Callers : pc[p] \in {"held", "cooldown", "unlocking"}}

\* C1: at most one caller holds the gate at a time, the mutex is locked
\* while there is a holder, and a Lock call returns only when no other
\* caller is a holder and the select of the previous release, if any, ended
\* with its context cancelled or its cooldown elapsed.
C1_MutualExclusion ==
    /\ Cardinality(Holders) <= 1
    /\ (Holders # {} => lck)
    /\ (lastSelect.who # 0 => (lastSelect.done \/ lastSelect.left = 0))

\* C1 witness: a caller is in its cooldown while another waits in Lock.
C1_Witness ==
    \E p, q \in Callers :
        /\ pc[p] = "cooldown" /\ timer[p] > 0
        /\ pc[q] = "locking"
        /\ lastSelect.who # 0

\* C2: a release whose context is cancelled during the cooldown ends and
\* unlocks the gate, whether or not the cooldown time passes.
C2_CancelUnlocks ==
    \A p \in Callers :
        (pc[p] = "cooldown" /\ cancelled[p]) ~> (pc[p] = "idle" /\ ~lck)

\* C2 witness: a release ended by cancellation with cooldown time left, the
\* gate is unlocked, and a caller is waiting to acquire it.
C2_Witness ==
    /\ lastSelect.who # 0 /\ lastSelect.done /\ lastSelect.left > 0
    /\ pc[lastSelect.who] = "idle"
    /\ ~lck
    /\ \E q \in Callers : pc[q] = "locking"



(***************************************************************************)
(* memory/fixed: src/unnamed/part_002 lines 449-523                        *)
(***************************************************************************)
\* Leave some tokens for the response (line 493).
ResponseReserve == 1000
\* 8 tokens extra per message (line 521).
PerMessageTokens == 8

\* Message contents, each standing for a text of a known encoded length.
Contents == {"short", "medium", "long"}

\* len(ids) of enc.Encode(content + "\n") with the cl100k_base tokenizer:
\* the tokenizer is a library; a content is modelled by the number of
\* tokens it adds to the text Tokens builds.
EncodedLen(c) ==
    CASE c = "short" -> 10
      [] c = "medium" -> 400
      [] c = "long" -> 900

\* memory.Message values the callers add.
Msgs == [role : {"user", "assistant"}, content : Contents]

KeepFirsts == 0..MaxKeepFirst

\* maxTokens policies: no limit, below the reserve, and two budgets.
MaxTokensChoices == {0, 900, 1500, 2400}

RECURSIVE TextTokens(_)
\* The token count of the text Tokens concatenates (lines 506-518).
TextTokens(ms) ==
    IF ms = <<>> THEN 0
    ELSE EncodedLen(Head(ms).content) + TextTokens(Tail(ms))

\* Tokens(messages): lines 505-523.
Tokens(ms) == TextTokens(ms) + Len(ms) * PerMessageTokens

\* append(first, rest...) where first = array[:k] shares the array of
\* m.messages and rest is the n elements at offset off of the same array:
\* len(first)+len(rest) never exceeds the capacity, so append copies rest
\* into the array right behind first (as memmove does) and returns
\* array[:k+n].  The result is the array afterwards.
AppendShared(array, k, off, n) ==
    [i \in 1..Len(array) |->
        IF i > k /\ i <= k + n THEN array[off + (i - k)] ELSE array[i]]

\* append(first, rest...) with first the empty literal of line 478: a new
\* array is allocated and the stored one is left alone.
AppendFresh(array, off, n) == SubSeq(array, off + 1, off + n)

\* One evaluation of append(first, rest...): the array afterwards and the
\* slice returned.
AppendFirstRest(array, shared, k, off, n) ==
    IF shared
    THEN LET a2 == AppendShared(array, k, off, n)
         IN  [array |-> a2, slice |-> SubSeq(a2, 1, k + n)]
    ELSE [array |-> array, slice |-> AppendFresh(array, off, n)]

RECURSIVE SumLoopNoError(_, _, _, _, _, _)
\* A variant of SumLoop that prunes the last message instead of failing.
SumLoopNoError(array, shared, k, off, n, max) ==
    LET ap == AppendFirstRest(array, shared, k, off, n)
        tokens == Tokens(ap.slice)
    IN  IF tokens + ResponseReserve <= max \/ n = 0
        THEN LET ret == AppendFirstRest(ap.array, shared, k, off, n)
             IN  [status |-> "ok", out |-> ret.slice, tokens |-> tokens,
                  array |-> ret.array]
        ELSE SumLoopNoError(ap.array, shared, k, off + 1, n - 1, max)

RECURSIVE SumLoop(_, _, _, _, _, _)
\* The for loop of Sum (lines 487-500) followed by the return of line 502.
\* rest is the n elements at offset off of the stored array.
SumLoop(array, shared, k, off, n, max) ==
    LET ap == AppendFirstRest(array, shared, k, off, n)
        tokens == Tokens(ap.slice)
    IN  IF tokens + ResponseReserve <= max
        THEN LET ret == AppendFirstRest(ap.array, shared, k, off, n)
             IN  [status |-> "ok", out |-> ret.slice, tokens |-> tokens,
                  array |-> ret.array]
        ELSE IF n = 1
        THEN [status |-> "error", out |-> <<>>, tokens |-> tokens,
              array |-> ap.array]
        ELSE IF n = 0
        \* rest[1:] of an empty slice: slice bounds out of range
        THEN [status |-> "panic", out |-> <<>>, tokens |-> tokens,
              array |-> ap.array]
        ELSE SumLoop(ap.array, shared, k, off + 1, n - 1, max)

\* fixedMemory.Sum (lines 476-503) on the stored array: the status, the
\* returned messages, the token count of the last estimate and the stored
\* array afterwards.
SumRun(array, kf, max) ==
    LET shared == kf > 0 /\ Len(array) > kf
        k == IF shared THEN kf ELSE 0
        n == Len(array) - k
    IN  IF max > 0
        THEN SumLoop(array, shared, k, k, n, max)
        ELSE LET ret == AppendFirstRest(array, shared, k, k, n)
             IN  [status |-> "ok", out |-> ret.slice, tokens |-> 0,
                  array |-> ret.array]

InitMem ==
    /\ keepFirst \in KeepFirsts
    /\ maxTokens \in MaxTokensChoices
    /\ MemStart
    /\ LockIdle
    /\ ParseIdle
    /\ ExecIdle
    /\ BingIdle
    /\ AutoIdle
    /\ BulkIdle
    /\ RwIdle

\* A panic of Sum is not recovered: the program is gone.
MemAlive == sumOut.status # "panic"

\* fixedMemory.Add (lines 471-474).
Add(msg) ==
    /\ MemAlive
    /\ Len(added) < MaxHistory
    /\ messages' = Append(messages, msg)
    /\ added' = Append(added, msg)
    /\ sumOut' = NoSum
    /\ UNCHANGED <<keepFirst, maxTokens>>
    /\ UNCHANGED notMemVars

\* fixedMemory.Sum (lines 476-503).
Sum ==
    /\ MemAlive
    /\ LET r == SumRun(messages, keepFirst, maxTokens)
       IN  /\ messages' = r.array
           /\ sumOut' = [status |-> r.status, out |-> r.out,
                         tokens |-> r.tokens]
    /\ UNCHANGED <<keepFirst, maxTokens, added>>
    /\ UNCHANGED notMemVars

NextMem ==
    \/ \E msg \in Msgs : Add(msg)
    \/ Sum

SpecMem == InitMem /\ [][NextMem]_vars

Min(a, b) == IF a < b THEN a ELSE b

\* The part of the history the code never prunes: m.messages[:keepFirst]
\* when there are more than keepFirst messages (lines 478-483).
KeptPrefix == IF keepFirst > 0 /\ Len(added) > keepFirst
              THEN SubSeq(added, 1, keepFirst) ELSE <<>>

\* s is the sequence of the last n elements of t
IsSuffix(s, t) ==
    /\ Len(s) <= Len(t)
    /\ s = SubSeq(t, Len(t) - Len(s) + 1, Len(t))

\* C3: a successful Sum returns no more messages than were added and
\* begins with the first min(keepFirst, len) messages of the history.
C3_PrefixKept ==
    sumOut.status = "ok" =>
        /\ Len(sumOut.out) <= Len(added)
        /\ Len(sumOut.out) >= Min(keepFirst, Len(added))
        /\ SubSeq(sumOut.out, 1, Min(keepFirst, Len(added)))
             = SubSeq(added, 1, Min(keepFirst, Len(added)))

\* C4: with maxTokens > 0, the messages a successful Sum returns have an
\* estimated token count plus the reserve of at most maxTokens.
C4_ReturnedFits ==
    (sumOut.status = "ok" /\ maxTokens > 0) =>
        Tokens(sumOut.out) + ResponseReserve <= maxTokens

\* C5: a successful Sum returns the first keepFirst messages followed by
\* the longest suffix of the remaining history that fits the budget.
C5_LongestSuffix ==
    sumOut.status = "ok" =>
        LET k == Min(keepFirst, Len(added))
            first == SubSeq(added, 1, k)
            rest == SubSeq(added, k + 1, Len(added))
            tail == SubSeq(sumOut.out, k + 1, Len(sumOut.out))
        IN  /\ Len(sumOut.out) >= k
            /\ SubSeq(sumOut.out, 1, k) = first
            /\ IsSuffix(tail, rest)
            /\ (maxTokens > 0 /\ Len(tail) < Len(rest)) =>
                 Tokens(first \o SubSeq(rest, Len(rest) - Len(tail),
                                        Len(rest)))
                   + ResponseReserve > maxTokens

\* C6: the stored history is the sequence of the messages passed to Add.
C6_HistoryIntact == messages = added

\* C7: with maxTokens > 0 and a history that is not empty, Sum fails
\* exactly when the never pruned prefix together with the last message
\* exceeds the budget, the error carries that token count, and a
\* successful Sum returns the prefix and at least one more message.
C7_TooLongFails ==
    (sumOut.status \in {"ok", "error"} /\ maxTokens > 0 /\ added # <<>>) =>
        LET single == KeptPrefix \o <<added[Len(added)]>>
            over == Tokens(single) + ResponseReserve > maxTokens
        IN  /\ over <=> sumOut.status = "error"
            /\ sumOut.status = "error" => sumOut.tokens = Tokens(single)
            /\ sumOut.status = "ok" =>
                 Len(sumOut.out) >= Len(KeptPrefix) + 1

\* C7 witness: Sum failed after pruning a history of several messages
\* behind a kept prefix.
C7_Witness ==
    /\ sumOut.status = "error"
    /\ keepFirst > 0
    /\ Len(added) > keepFirst + 1
    /\ sumOut.tokens + ResponseReserve > maxTokens


(***************************************************************************)
(* encoding/json as command.Parse uses it: src/internal/command/command.go *)
(* lines 130-145.  A text is a sequence of characters.  A decoded value    *)
(* is [t, v]: t is the kind, v the characters of a string or number, the   *)
(* elements of an array, or the entries [k, val] of an object.             *)
(***************************************************************************)
Quote == "\""
Backslash == "\\"

Digits == {"0", "1", "2", "3", "4", "5", "6", "7", "8", "9"}

\* the characters the json scanner skips between tokens
IsSpace(c) == c \in {" ", "\t", "\r", "\n"}

JStr(cs) == [t |-> "str", v |-> cs]
JNum(cs) == [t |-> "num", v |-> cs]
JNull == [t |-> "null", v |-> <<>>]
JBool(b) == [t |-> "bool", v |-> <<b>>]
JArr(es) == [t |-> "arr", v |-> es]
JObj(ens) == [t |-> "obj", v |-> ens]

JFail == [ok |-> FALSE, val |-> JNull, next |-> 0]
JOk(val, next) == [ok |-> TRUE, val |-> val, next |-> next]

RECURSIVE SkipSpace(_, _)
\* the index of the first character at or after i that is not white space
SkipSpace(s, i) ==
    IF i <= Len(s) /\ IsSpace(s[i]) THEN SkipSpace(s, i + 1) ELSE i

\* the character an escape sequence \c stands for, "" when the model has none
Unescape(c) ==
    CASE c = Quote -> Quote
      [] c = Backslash -> Backslash
      [] c = "/" -> "/"
      [] c = "n" -> "\n"
      [] c = "t" -> "\t"
      [] c = "r" -> "\r"
      [] OTHER -> ""

HexDigits == Digits \cup {"a", "b", "c", "d", "e", "f",
                           "A", "B", "C", "D", "E", "F"}

\* the replacement character U+FFFD
ReplacementChar == "U+fffd"

\* the character the escape sequence \uXXXX with the hex digits h stands
\* for: the characters json.Marshal writes this way, any other code point
\* as a character named by its digits
UnescapeU(h) ==
    CASE h = <<"0", "0", "3", "c">> -> "<"
      [] h = <<"0", "0", "3", "e">> -> ">"
      [] h = <<"0", "0", "2", "6">> -> "&"
      [] h = <<"0", "0", "5", "b">> -> "["
      [] h = <<"0", "0", "5", "d">> -> "]"
      [] OTHER -> "U+" \o h[1] \o h[2] \o h[3] \o h[4]

RECURSIVE JStringBody(_, _, _)
\* a string literal from behind its opening quote: control characters must
\* be escaped, the closing quote ends it
JStringBody(s, i, acc) ==
    IF i > Len(s) THEN JFail
    ELSE IF s[i] = Quote THEN JOk(JStr(acc), i + 1)
    ELSE IF s[i] = Backslash /\ i + 1 <= Len(s) /\ s[i + 1] = "u"
    THEN IF i + 5 > Len(s)
            \/ \E j \in (i + 2)..(i + 5) : s[j] \notin HexDigits
         THEN JFail
         ELSE JStringBody(s, i + 6,
                          Append(acc, UnescapeU(SubSeq(s, i + 2, i + 5))))
    ELSE IF s[i] = Backslash
    THEN IF i + 1 > Len(s) \/ Unescape(s[i + 1]) = "" THEN JFail
         ELSE JStringBody(s, i + 2, Append(acc, Unescape(s[i + 1])))
    ELSE IF s[i] \in {"\n", "\t", "\r"} THEN JFail
    ELSE JStringBody(s, i + 1, Append(acc, s[i]))

RECURSIVE JDigits(_, _)
\* the index behind the run of digits that starts at i
JDigits(s, i) ==
    IF i <= Len(s) /\ s[i] \in Digits THEN JDigits(s, i + 1) ELSE i

\* a number: 0, or a digit 1-9 followed by digits (the texts of the model
\* have no sign, fraction or exponent)
JNumber(s, i) ==
    LET e == IF s[i] = "0" THEN i + 1 ELSE JDigits(s, i)
    IN  JOk(JNum(SubSeq(s, i, e - 1)), e)

\* the literal lit (null, true, false) at i
JLiteral(s, i, lit, val) ==
    IF i + Len(lit) - 1 <= Len(s) /\ SubSeq(s, i, i + Len(lit) - 1) = lit
    THEN JOk(val, i + Len(lit))
    ELSE JFail

\* m[k] = val on a Go map kept as a sequence of entries
MapSet(ens, k, val) ==
    IF \E j \in 1..Len(ens) : ens[j].k = k
    THEN [j \in 1..Len(ens) |->
            IF ens[j].k = k THEN [k |-> k, val |-> val] ELSE ens[j]]
    ELSE Append(ens, [k |-> k, val |-> val])

RECURSIVE JValue(_, _), JElements(_, _, _), JMembers(_, _, _)
\* the JSON value that starts at i (i is not white space)
JValue(s, i) ==
    IF i > Len(s) THEN JFail
    ELSE IF s[i] = Quote THEN JStringBody(s, i + 1, <<>>)
    ELSE IF s[i] \in Digits THEN JNumber(s, i)
    ELSE IF s[i] = "n" THEN JLiteral(s, i, <<"n", "u", "l", "l">>, JNull)
    ELSE IF s[i] = "t"
    THEN JLiteral(s, i, <<"t", "r", "u", "e">>, JBool("true"))
    ELSE IF s[i] = "f"
    THEN JLiteral(s, i, <<"f", "a", "l", "s", "e">>, JBool("false"))
    ELSE IF s[i] = "["
    THEN LET j == SkipSpace(s, i + 1)
         IN  IF j <= Len(s) /\ s[j] = "]" THEN JOk(JArr(<<>>), j + 1)
             ELSE JElements(s, j, <<>>)
    ELSE IF s[i] = "{"
    THEN LET j == SkipSpace(s, i + 1)
         IN  IF j <= Len(s) /\ s[j] = "}" THEN JOk(JObj(<<>>), j + 1)
             ELSE JMembers(s, j, <<>>)
    ELSE JFail

\* the elements of an array from the element at i on, up to the "]"
JElements(s, i, acc) ==
    LET e == JValue(s, i)
        j == SkipSpace(s, e.next)
    IN  IF ~e.ok \/ j > Len(s) THEN JFail
        ELSE IF s[j] = "]" THEN JOk(JArr(Append(acc, e.val)), j + 1)
        ELSE IF s[j] = ","
        THEN JElements(s, SkipSpace(s, j + 1), Append(acc, e.val))
        ELSE JFail

\* the members of an object from the key at i on, up to the "}"
JMembers(s, i, acc) ==
    IF i > Len(s) \/ s[i] # Quote THEN JFail
    ELSE
    LET key == JStringBody(s, i + 1, <<>>)
        c == SkipSpace(s, key.next)
    IN  IF ~key.ok \/ c > Len(s) \/ s[c] # ":" THEN JFail
        ELSE
        LET e == JValue(s, SkipSpace(s, c + 1))
            j == SkipSpace(s, e.next)
        IN  IF ~e.ok \/ j > Len(s) THEN JFail
            ELSE IF s[j] = "}"
            THEN JOk(JObj(MapSet(acc, key.val.v, e.val)), j + 1)
            ELSE IF s[j] = ","
            THEN JMembers(s, SkipSpace(s, j + 1),
                          MapSet(acc, key.val.v, e.val))
            ELSE JFail

\* checkValid and the generic decoding of a whole text: one value with
\* white space around it
JDecode(s) ==
    LET r == JValue(s, SkipSpace(s, 1))
    IN  IF r.ok /\ SkipSpace(s, r.next) = Len(s) + 1 THEN r ELSE JFail

\* json.Unmarshal(match, &arr) with arr a []map[string]any: a syntax error
\* stores nothing; an element that is an object becomes its map, null
\* becomes a nil map, any other element leaves a nil map and the call
\* reports the type error after decoding the other elements.
UnmarshalMaps(s) ==
    LET r == JDecode(s)
    IN  IF ~r.ok \/ r.val.t # "arr" THEN [err |-> TRUE, arr |-> <<>>]
        ELSE [err |-> \E j \in 1..Len(r.val.v) :
                          r.val.v[j].t \notin {"obj", "null"},
              arr |-> [j \in 1..Len(r.val.v) |->
                          IF r.val.v[j].t = "obj" THEN r.val.v[j].v
                          ELSE <<>>]]

\* json.Unmarshal(m, &obj) with obj a map[string]any
UnmarshalMap(s) ==
    LET r == JDecode(s)
    IN  IF ~r.ok \/ r.val.t # "obj" THEN [err |-> TRUE, obj |-> <<>>]
        ELSE [err |-> FALSE, obj |-> r.val.v]

(***************************************************************************)
(* command.Parse: src/internal/command/command.go lines 112-169            *)
(***************************************************************************)
\* strings.Index(text, c) + 1: the first position of c, 0 when absent
Index(s, c) ==
    IF \E i \in 1..Len(s) : s[i] = c
    THEN CHOOSE i \in 1..Len(s) :
            s[i] = c /\ \A j \in 1..(i - 1) : s[j] # c
    ELSE 0

\* strings.LastIndex(text, c) + 1: the last position of c, 0 when absent
LastIndex(s, c) ==
    IF \E i \in 1..Len(s) : s[i] = c
    THEN CHOOSE i \in 1..Len(s) :
            s[i] = c /\ \A j \in (i + 1)..Len(s) : s[j] # c
    ELSE 0

RECURSIVE ShortestClose(_, _)
\* for the pattern \{.*?\} with its "{" matched before i: the position of
\* the nearest "}" from i on, 0 when a line end (which . does not match) or
\* the end of the text comes first
ShortestClose(s, i) ==
    IF i > Len(s) \/ s[i] = "\n" THEN 0
    ELSE IF s[i] = "}" THEN i
    ELSE ShortestClose(s, i + 1)

RECURSIVE FindAllString(_, _)
\* re.FindAllString(match, -1) for the pattern (\{.*?\}): the leftmost
\* matches from position i on, each the shortest from its "{", in order and
\* not overlapping
FindAllString(s, i) ==
    IF i > Len(s) THEN <<>>
    ELSE IF s[i] # "{" THEN FindAllString(s, i + 1)
    ELSE LET e == ShortestClose(s, i + 1)
         IN  IF e = 0 THEN FindAllString(s, i + 1)
             ELSE <<SubSeq(s, i, e)>> \o FindAllString(s, e + 1)

RECURSIVE AppendDecoded(_, _)
\* lines 141-146: the map of every match that decodes is appended to arr
AppendDecoded(arr, ms) ==
    IF ms = <<>> THEN arr
    ELSE LET d == UnmarshalMap(Head(ms))
         IN  AppendDecoded(IF d.err THEN arr ELSE Append(arr, d.obj),
                           Tail(ms))

\* A variant of ToArgs that wraps every value.
ToArgsWrapAll(val) == <<val>>

\* lines 156-160: the args of a value, the value itself when it is an array
ToArgs(val) == IF val.t = "arr" THEN val.v ELSE <<val>>

\* lines 162-165: the request of one map entry
Request(en) == [name |-> en.k, args |-> ToArgs(en.val)]

RECURSIVE Orders(_)
\* the orders in which a range over a Go map can visit its entries
Orders(ens) ==
    IF ens = <<>> THEN {<<>>}
    ELSE UNION {{<<ens[i]>> \o rest :
                    rest \in Orders([j \in 1..(Len(ens) - 1) |->
                                        IF j < i THEN ens[j] ELSE ens[j + 1]])}
                : i \in 1..Len(ens)}

RECURSIVE Commands(_)
\* lines 153-167: the request lists the two loops can build from arr
Commands(arr) ==
    IF arr = <<>> THEN {<<>>}
    ELSE {[j \in 1..Len(o) |-> Request(o[j])] \o rest :
            o \in Orders(Head(arr)), rest \in Commands(Tail(arr))}

ParseError == [status |-> "error", cmds |-> <<>>]
\* text[startIdx : endIdx+1] with startIdx > endIdx+1: slice bounds out of
\* range
ParsePanic == [status |-> "panic", cmds |-> <<>>]

\* lines 134-149: arr after the search for single commands, <<>> when Parse
\* returns the error
FallbackArr(match, arr) ==
    LET matches == FindAllString(match, 1)
    IN  IF matches = <<>> THEN <<>> ELSE AppendDecoded(arr, matches)

\* Parse(text): the results it can return
Parse(text) ==
    LET startIdx == Index(text, "[")
        endIdx == LastIndex(text, "]")
    IN  IF startIdx = 0 \/ endIdx = 0 THEN {ParseError}
        ELSE IF startIdx > endIdx + 1 THEN {ParsePanic}
        ELSE
        LET match == SubSeq(text, startIdx, endIdx)
            first == UnmarshalMaps(match)
            arr == IF first.err THEN FallbackArr(match, first.arr)
                   ELSE first.arr
        IN  IF first.err /\ arr = <<>> THEN {ParseError}
            ELSE {[status |-> "ok", cmds |-> c] : c \in Commands(arr)}

(***************************************************************************)
(* Texts handed to Parse: JSON arrays of single-key objects, as the command*)
(* grammar of the prompts asks for, one or several in a reply, bare or     *)
(* with prose around them.                                                 *)
(***************************************************************************)
RECURSIVE Join(_, _)
\* the sequences of ss with sep between them
Join(ss, sep) ==
    IF ss = <<>> THEN <<>>
    ELSE IF Len(ss) = 1 THEN ss[1]
    ELSE ss[1] \o sep \o Join(Tail(ss), sep)

RECURSIVE EscapeString(_)
\* the characters of a string literal for the characters cs
EscapeString(cs) ==
    IF cs = <<>> THEN <<>>
    ELSE (CASE Head(cs) = Quote -> <<Backslash, Quote>>
            [] Head(cs) = Backslash -> <<Backslash, Backslash>>
            [] Head(cs) = "\n" -> <<Backslash, "n">>
            [] OTHER -> <<Head(cs)>>) \o EscapeString(Tail(cs))

RECURSIVE Render(_, _)
\* the JSON text of a value, sp written behind every ":" and ","
Render(val, sp) ==
    CASE val.t = "str" -> <<Quote>> \o EscapeString(val.v) \o <<Quote>>
      [] val.t = "num" -> val.v
      [] val.t = "null" -> <<"n", "u", "l", "l">>
      [] val.t = "bool" ->
            IF val.v[1] = "true" THEN <<"t", "r", "u", "e">>
            ELSE <<"f", "a", "l", "s", "e">>
      [] val.t = "arr" ->
            <<"[">> \o Join([j \in 1..Len(val.v) |-> Render(val.v[j], sp)],
                            <<",">> \o sp) \o <<"]">>
      [] val.t = "obj" ->
            <<"{">> \o Join([j \in 1..Len(val.v) |->
                                Render(JStr(val.v[j].k), sp) \o <<":">> \o sp
                                  \o Render(val.v[j].val, sp)],
                            <<",">> \o sp) \o <<"}">>

talk == <<"t", "a", "l", "k">>
write == <<"w", "r", "i", "t", "e">>
bash == <<"b", "a", "s", "h">>

\* the single-key objects of the texts: a string argument, a list of
\* arguments, an object argument and a number argument
ObjKinds ==
    { [k |-> talk, val |-> JStr(<<"b", "l", "a", "h">>)],
      [k |-> write, val |-> JArr(<<JStr(<<"f">>), JStr(<<"h", "i">>)>>)],
      [k |-> talk, val |-> JObj(<<[k |-> <<"a">>, val |-> JStr(<<"b">>)]>>)],
      [k |-> bash, val |-> JNum(<<"1">>)] }

RECURSIVE SeqsUpTo(_, _)
\* the sequences of at most n elements of S
SeqsUpTo(S, n) ==
    IF n = 0 THEN {<<>>}
    ELSE LET shorter == SeqsUpTo(S, n - 1)
         IN  shorter \cup {Append(q, x) : q \in shorter, x \in S}

RECURSIVE ArraysUpTo(_, _)
\* the sequences of at most a arrays with at most n objects in all
ArraysUpTo(a, n) ==
    IF a = 0 THEN {<<>>}
    ELSE {<<>>} \cup
         UNION {{<<first>> \o rest : rest \in ArraysUpTo(a - 1, n - Len(first))}
                : first \in SeqsUpTo(ObjKinds, n)}

\* the replies: 1..MaxArrays arrays
SrcChoices == ArraysUpTo(MaxArrays, MaxObjs) \ {<<>>}

\* how a reply is written: prose in front and behind, and the spacing
Styles == { [pre |-> <<>>, post |-> <<>>, sp |-> <<>>],
            [pre |-> <<"o", "k", ":", " ">>, post |-> <<" ", "d", "o", "n", "e">>,
             sp |-> <<" ">>] }

\* the text of a reply
ReplyText(arrays, style) ==
    style.pre
      \o Join([a \in 1..Len(arrays) |->
                  Render(JArr([j \in 1..Len(arrays[a]) |->
                                  JObj(<<arrays[a][j]>>)]), style.sp)],
              <<" ">>)
      \o style.post

InitParse ==
    /\ src \in SrcChoices
    /\ \E style \in Styles : input = ReplyText(src, style)
    /\ parsed = NotParsed
    /\ LockIdle
    /\ MemIdle
    /\ ExecIdle
    /\ BingIdle
    /\ AutoIdle
    /\ BulkIdle
    /\ RwIdle

\* Parse(input) is called and returns.
DoParse ==
    /\ parsed.status = "none"
    /\ \E r \in Parse(input) : parsed' = r
    /\ UNCHANGED <<src, input>>
    /\ UNCHANGED notParseVars

NextParse == DoParse

SpecParse == InitParse /\ [][NextParse]_vars

RECURSIVE Flatten(_)
\* the concatenation of the sequences of ss
Flatten(ss) == IF ss = <<>> THEN <<>> ELSE Head(ss) \o Flatten(Tail(ss))

\* one request per object of the arrays, in textual order: the name is the
\* key, the args are the value when it is an array, else the value alone
ExpectedRequests(arrays) ==
    LET objs == Flatten(arrays)
    IN  [j \in 1..Len(objs) |->
            [name |-> objs[j].k,
             args |-> IF objs[j].val.t = "arr" THEN objs[j].val.v
                      ELSE <<objs[j].val>>]]

\* C8: for a text with one JSON array of single-key objects between its
\* first "[" and its last "]", Parse returns one request per object in
\* array order, named by the key, with the value as args when it is an
\* array and else the value as the only arg.
C8_ParseArray ==
    (parsed.status # "none" /\ Len(src) = 1) =>
        parsed = [status |-> "ok", cmds |-> ExpectedRequests(src)]

\* C8 witness: a text with prose around one array of several objects, one
\* with an array value and one with another value, has been parsed.
C8_Witness ==
    /\ parsed.status = "ok"
    /\ Len(src) = 1 /\ Len(src[1]) > 1
    /\ input[1] # "["
    /\ \E j \in 1..Len(src[1]) : src[1][j].val.t = "arr"
    /\ \E j \in 1..Len(src[1]) : src[1][j].val.t # "arr"

\* C9: for a text of several separate JSON arrays of single-key objects,
\* Parse succeeds and returns one request per object across the arrays in
\* textual order.
C9_SeparateArrays ==
    (/\ parsed.status # "none"
     /\ Len(src) > 1
     /\ \A a \in 1..Len(src) : src[a] # <<>>) =>
        parsed = [status |-> "ok", cmds |-> ExpectedRequests(src)]

(***************************************************************************)
(* command.runner: src/internal/command/command.go lines 20-110, 171-441   *)
(***************************************************************************)
bing == <<"b", "i", "n", "g">>
google == <<"g", "o", "o", "g", "l", "e">>
web == <<"w", "e", "b">>
think == <<"t", "h", "i", "n", "k">>
read == <<"r", "e", "a", "d">>
delete == <<"d", "e", "l", "e", "t", "e">>
list == <<"l", "i", "s", "t">>
exit == <<"e", "x", "i", "t">>
file == <<"f", "i", "l", "e">>

\* the keys of runner.commands, the Name() of the commands of New
\* (lines 28-45)
Registry ==
    {bash, bing, google, web, talk, think, read, write, delete, list, exit}

UpperCase == <<"A", "B", "C", "D", "E", "F", "G", "H", "I", "J", "K", "L", "M",
               "N", "O", "P", "Q", "R", "S", "T", "U", "V", "W", "X", "Y", "Z">>
LowerCase == <<"a", "b", "c", "d", "e", "f", "g", "h", "i", "j", "k", "l", "m",
               "n", "o", "p", "q", "r", "s", "t", "u", "v", "w", "x", "y", "z">>

\* strings.ToLower on one character
ToLowerChar(c) ==
    IF \E i \in 1..26 : UpperCase[i] = c
    THEN LowerCase[CHOOSE i \in 1..26 : UpperCase[i] = c]
    ELSE c

ToLower(cs) == [i \in 1..Len(cs) |-> ToLowerChar(cs[i])]

RECURSIVE TrimLeft(_)
TrimLeft(cs) ==
    IF cs # <<>> /\ IsSpace(Head(cs)) THEN TrimLeft(Tail(cs)) ELSE cs

RECURSIVE TrimRight(_)
TrimRight(cs) ==
    IF cs # <<>> /\ IsSpace(cs[Len(cs)])
    THEN TrimRight(SubSeq(cs, 1, Len(cs) - 1)) ELSE cs

\* strings.TrimSpace
TrimSpace(cs) == TrimRight(TrimLeft(cs))

\* strings.ReplaceAll(cs, old, new) for single characters
ReplaceAll(cs, old, new) ==
    [i \in 1..Len(cs) |-> IF cs[i] = old THEN new ELSE cs[i]]

\* a variant of fixName that leaves the hyphens of a name alone
FixNameKeepsHyphen(name) ==
    LET n == ReplaceAll(ToLower(TrimSpace(name)), " ", "_")
    IN  CASE n = write \o <<"_">> \o file -> write
          [] n = read \o <<"_">> \o file -> read
          [] n = delete \o <<"_">> \o file -> delete
          [] n = list \o <<"_">> \o file \o <<"s">> -> list
          [] OTHER -> n

\* fixName (lines 94-110)
FixName(name) ==
    LET n == ReplaceAll(ReplaceAll(ToLower(TrimSpace(name)), "-", "_"),
                        " ", "_")
    IN  CASE n = write \o <<"_">> \o file -> write
          [] n = read \o <<"_">> \o file -> read
          [] n = delete \o <<"_">> \o file -> delete
          [] n = list \o <<"_">> \o file \o <<"s">> -> list
          [] OTHER -> n

\* a byte of a string of the program that is no valid UTF-8
InvalidByte == "<ff>"

\* the nil any
Nil == [t |-> "nil", v |-> <<>>]

\* fmt.Sprintf("%s", args[0]) == "": only the empty string formats to
\* nothing, every other value has a non-empty text
FormatsEmpty(val) == val.t = "str" /\ val.v = <<>>

\* logErr(fmt.Errorf(msg)) and logErr(fmt.Errorf(msg + ": %w", err)):
\* the error text as the result
ErrResult(msg) == JStr(<<msg>>)
ErrWrapped(msg) == JStr(<<msg, ": ", "error">>)

\* the guards all argument taking commands start with (for instance lines
\* 191-197): the error result, Nil when the first argument is usable
ArgError(args, what) ==
    IF Len(args) = 0 THEN ErrResult("missing " \o what)
    ELSE IF FormatsEmpty(args[1]) THEN ErrResult("empty " \o what)
    ELSE Nil

\* The Run methods: the values a call can return.  What the shell, the
\* network and the file system answer is not decided by the program.

\* BashCommand.Run (lines 190-207): the combined output, also on failure
BashRun(args) ==
    IF ArgError(args, "bash command") # Nil
    THEN {ArgError(args, "bash command")}
    ELSE {JStr(<<>>), JStr(<<"output">>),
          JStr(<<"a", Quote, "]", "<", "\n">>), JStr(<<InvalidByte>>)}

\* BingCommand.Run (lines 218-238)
BingRun(args) ==
    IF ArgError(args, "bing message") # Nil
    THEN {ArgError(args, "bing message")}
    ELSE {ErrWrapped("couldn't write message to bing"),
          ErrWrapped("couldn't read message from bing"),
          JStr(<<"reply">>)}

\* GoogleCommand.Run (lines 249-262): the items of the response, a nil
\* slice when the response has none
GoogleRun(args) ==
    IF ArgError(args, "google query") # Nil
    THEN {ArgError(args, "google query")}
    ELSE {ErrWrapped("couldn't search google"),
          JNull,
          JArr(<<JObj(<<[k |-> <<"title">>, val |-> JStr(<<"t">>)],
                        [k |-> <<"link">>, val |-> JStr(<<"l">>)]>>)>>)}

\* WebCommand.Run (lines 270-283)
WebRun(args) ==
    IF ArgError(args, "web url") # Nil
    THEN {ArgError(args, "web url")}
    ELSE {ErrWrapped("couldn't obtain web"), JStr(<<"page">>)}

\* nopCommand.Run (lines 300-302)
NopRun(name) == {JStr(<<"received ">> \o name \o <<" command">>)}

\* ReadFileCommand.Run (lines 313-329)
ReadFileRun(args) ==
    IF ArgError(args, "read file path") # Nil
    THEN {ArgError(args, "read file path")}
    ELSE {ErrWrapped("couldn't read file"), JStr(<<>>), JStr(<<"data">>)}

\* WriteFileCommand.Run (lines 340-363)
WriteFileRun(args) ==
    IF Len(args) < 1 THEN {ErrResult("missing write file arguments")}
    ELSE IF FormatsEmpty(args[1]) THEN {ErrResult("empty write file path")}
    ELSE {ErrWrapped("couldn't create directory"),
          ErrWrapped("couldn't write file"),
          JStr(<<"write file success">>)}

\* DeleteFileCommand.Run (lines 374-388)
DeleteFileRun(args) ==
    IF ArgError(args, "delete file path") # Nil
    THEN {ArgError(args, "delete file path")}
    ELSE {ErrWrapped("couldn't delete file"), JStr(<<"delete file success">>)}

\* ListFilesCommand.Run (lines 399-425): the names of the walked entries
ListFilesRun(args) ==
    IF ArgError(args, "list_files path") # Nil
    THEN {ArgError(args, "list_files path")}
    ELSE {ErrWrapped("couldn't list files"),
          JArr(<<JStr(<<"dir">>), JStr(<<"f">>)>>)}

\* ExitCommand.Run (lines 435-440): the value returned
ExitRun == {JStr(exit)}

\* cmd.Run(ctx, req.Args) for the command registered as name (line 83)
RunResults(name, args) ==
    CASE name = bash -> BashRun(args)
      [] name = bing -> BingRun(args)
      [] name = google -> GoogleRun(args)
      [] name = web -> WebRun(args)
      [] name \in {talk, think} -> NopRun(name)
      [] name = read -> ReadFileRun(args)
      [] name = write -> WriteFileRun(args)
      [] name = delete -> DeleteFileRun(args)
      [] name = list -> ListFilesRun(args)
      [] name = exit -> ExitRun

\* the requests of the batches
ReqChoices ==
    { [name |-> talk, args |-> <<JStr(<<"b", "l", "a", "h">>)>>],
      [name |-> <<"R", "e", "a", "d", "-", "F", "i", "l", "e", " ">>,
       args |-> <<JStr(<<"f">>)>>],
      [name |-> <<"f", "o", "o">>, args |-> <<JStr(<<"x">>)>>],
      [name |-> <<"t", "a", "l", "k", "s">>, args |-> <<>>],
      [name |-> exit, args |-> <<>>],
      [name |-> bash, args |-> <<>>],
      [name |-> bash, args |-> <<JStr(<<>>)>>],
      [name |-> write, args |-> <<JStr(<<"f">>), JStr(<<"h", "i">>)>>],
      [name |-> bash, args |-> <<JStr(<<"l", "s">>)>>],
      [name |-> google, args |-> <<JStr(<<"q">>)>>] }

InitExec ==
    /\ reqs \in SeqsUpTo(ReqChoices, MaxBatch)
    /\ execPc = "idle"
    /\ ExecStart
    /\ LockIdle
    /\ MemIdle
    /\ ParseIdle
    /\ BingIdle
    /\ AutoIdle
    /\ BulkIdle
    /\ RwIdle

\* execute(ctx, reqs) is called (line 70): results starts empty (line 75)
ExecCall ==
    /\ execPc = "idle"
    /\ execPc' = "running"
    /\ UNCHANGED <<reqs, idx, results, ran, exited>>
    /\ UNCHANGED notExecVars

\* the request the range loop is at, and its fixed name (lines 76-77)
CurReq == reqs[idx]
CurName == FixName(CurReq.name)

\* A variant of ExecUnknown that gives up on the batch.
ExecUnknownAbort ==
    /\ execPc = "running" /\ idx <= Len(reqs)
    /\ CurName \notin Registry
    /\ execPc' = "done"
    /\ UNCHANGED <<reqs, idx, results, ran, exited>>
    /\ UNCHANGED notExecVars

\* lines 78-82: no command has the name, the request is logged and skipped
ExecUnknown ==
    /\ execPc = "running" /\ idx <= Len(reqs)
    /\ CurName \notin Registry
    /\ idx' = idx + 1
    /\ UNCHANGED <<reqs, results, ran, exited, execPc>>
    /\ UNCHANGED notExecVars

\* a variant of ExecRun that gives up on the batch when a handler reports
\* an error
ExecRunAbortsOnError ==
    /\ execPc = "running" /\ idx <= Len(reqs)
    /\ CurName \in Registry \ {exit}
    /\ \E out \in RunResults(CurName, CurReq.args) :
          /\ results' = IF out = Nil THEN results
                        ELSE Append(results, [k |-> CurName, val |-> out])
          /\ execPc' = IF out = ArgError(CurReq.args, "bash command")
                       THEN "done" ELSE execPc
    /\ ran' = Append(ran, [name |-> CurName, args |-> CurReq.args])
    /\ idx' = idx + 1
    /\ UNCHANGED <<reqs, exited>>
    /\ UNCHANGED notExecVars

\* a variant of ExecRun that leaves the results of talk and think out
ExecRunSkipsNop ==
    /\ execPc = "running" /\ idx <= Len(reqs)
    /\ CurName \in Registry \ {exit}
    /\ \E out \in RunResults(CurName, CurReq.args) :
          results' = IF out = Nil \/ CurName \in {talk, think} THEN results
                     ELSE Append(results, [k |-> CurName, val |-> out])
    /\ ran' = Append(ran, [name |-> CurName, args |-> CurReq.args])
    /\ idx' = idx + 1
    /\ UNCHANGED <<reqs, exited, execPc>>
    /\ UNCHANGED notExecVars

\* lines 83-89 for every command but exit: the command runs and its result,
\* unless nil, is appended under the fixed name
ExecRun ==
    /\ execPc = "running" /\ idx <= Len(reqs)
    /\ CurName \in Registry \ {exit}
    /\ \E out \in RunResults(CurName, CurReq.args) :
          results' = IF out = Nil THEN results
                     ELSE Append(results, [k |-> CurName, val |-> out])
    /\ ran' = Append(ran, [name |-> CurName, args |-> CurReq.args])
    /\ idx' = idx + 1
    /\ UNCHANGED <<reqs, exited, execPc>>
    /\ UNCHANGED notExecVars

\* a variant of ExecExit that ends the batch at the exit request
ExecExitEndsBatch ==
    /\ execPc = "running" /\ idx <= Len(reqs)
    /\ CurName = exit
    /\ exited' = TRUE
    /\ \E out \in RunResults(CurName, CurReq.args) :
          results' = IF out = Nil THEN results
                     ELSE Append(results, [k |-> CurName, val |-> out])
    /\ ran' = Append(ran, [name |-> CurName, args |-> CurReq.args])
    /\ idx' = idx + 1
    /\ execPc' = "done"
    /\ UNCHANGED reqs
    /\ UNCHANGED notExecVars

\* lines 83-89 for the exit command: Run calls the exit function
\* (lines 435-440)
ExecExit ==
    /\ execPc = "running" /\ idx <= Len(reqs)
    /\ CurName = exit
    /\ exited' = TRUE
    /\ \E out \in RunResults(CurName, CurReq.args) :
          results' = IF out = Nil THEN results
                     ELSE Append(results, [k |-> CurName, val |-> out])
    /\ ran' = Append(ran, [name |-> CurName, args |-> CurReq.args])
    /\ idx' = idx + 1
    /\ UNCHANGED <<reqs, execPc>>
    /\ UNCHANGED notExecVars

\* line 91: the loop is over and execute returns results
ExecReturn ==
    /\ execPc = "running" /\ idx > Len(reqs)
    /\ execPc' = "done"
    /\ UNCHANGED <<reqs, idx, results, ran, exited>>
    /\ UNCHANGED notExecVars

NextExec ==
    \/ ExecCall
    \/ ExecUnknown
    \/ ExecRun
    \/ ExecExit
    \/ ExecReturn

SpecExec == InitExec /\ [][NextExec]_vars

\* the request names a registered command
IsRegistered(req) == FixName(req.name) \in Registry

\* the requests of a batch that name a registered command, in order, as
\* the handler sees them
RegisteredOf(batch) ==
    LET known == SelectSeq(batch, IsRegistered)
    IN  [j \in 1..Len(known) |->
            [name |-> FixName(known[j].name), args |-> known[j].args]]

\* C10: a request whose fixed name has no command is skipped, leaving no
\* result, and all other requests of the batch run, in order: the handlers
\* run so far are those of the registered requests the loop has passed, no
\* result is keyed by an unregistered name, and execute returns only after
\* the whole batch.
C10_UnknownSkipped ==
    /\ ran = RegisteredOf(SubSeq(reqs, 1, idx - 1))
    /\ \A j \in 1..Len(results) : results[j].k \in Registry
    /\ Len(results) <= Len(ran)
    /\ execPc = "done" => idx = Len(reqs) + 1

\* C10 witness: execute returned for a batch with an unknown request
\* between two registered ones, both of which ran.
C10_Witness ==
    /\ execPc = "done"
    /\ Len(reqs) >= 3
    /\ IsRegistered(reqs[1]) /\ ~IsRegistered(reqs[2]) /\ IsRegistered(reqs[3])
    /\ Len(ran) >= 2 /\ Len(results) >= 2

(***************************************************************************)
(* pkg/bing: Client.Chat, the bootstrap of a connection.                   *)
(*                                                                         *)
(* Chat holds the rate limit of the client from before the HTTP request    *)
(* until it returns.  Every step can fail; a failed step returns an error  *)
(* and no connection.                                                      *)
(***************************************************************************)
\* what the conversation create request can answer
Responses ==
    [body : BOOLEAN, status : {200, 403}, json : BOOLEAN,
     result : {"Success", "Forbidden", "nil"}]

\* the checks of Chat on the answer of the conversation create request
ResponseOk(r) ==
    /\ r.body
    /\ r.status = 200
    /\ r.json
    /\ r.result = "Success"

\* the steps of a Chat that returns a connection, in order
ChatSteps == <<"request", "conversation", "session", "dial", "handshake", "ack">>

\* Chat is called: the request is built
ChatCall ==
    /\ chatPc = "idle"
    /\ chatPc' = "gate"
    /\ UNCHANGED <<chatLog, connCtx, ws, pipe, gate, connLck, invocationID,
                   wpc, wlen, wres, wrap, frames, staged, rpc, rres,
                   panicked, lastEnd>>
    /\ UNCHANGED notBingVars

\* unlock := c.rateLimit.Lock(ctx): blocks while the mutex is locked
ChatLock ==
    /\ chatPc = "gate"
    /\ ~gate
    /\ gate' = TRUE
    /\ chatPc' = "do"
    /\ UNCHANGED <<chatLog, connCtx, ws, pipe, connLck, invocationID,
                   wpc, wlen, wres, wrap, frames, staged, rpc, rres,
                   panicked, lastEnd>>
    /\ UNCHANGED notBingVars

\* one step of Chat: from position at, on success log the step and go to
\* position next, on failure return the error through the deferred unlock
ChatStep(at, ok, step, next) ==
    /\ chatPc = at
    /\ IF ok
       THEN /\ chatLog' = Append(chatLog, step)
            /\ chatPc' = next
       ELSE /\ chatLog' = chatLog
            /\ chatPc' = "unlockErr"

\* resp, err := c.client.Do(req); a cancelled ctx makes it fail
ChatDo(ok) ==
    /\ ok => connCtx = "live"
    /\ ChatStep("do", ok, "request", "response")
    /\ UNCHANGED <<connCtx, ws, pipe, gate, connLck, invocationID,
                   wpc, wlen, wres, wrap, frames, staged, rpc, rres,
                   panicked, lastEnd>>
    /\ UNCHANGED notBingVars

\* the body is read and checked: status, JSON, result value
ChatResponse(r) ==
    /\ ChatStep("response", ResponseOk(r), "conversation", "session")
    /\ UNCHANGED <<connCtx, ws, pipe, gate, connLck, invocationID,
                   wpc, wlen, wres, wrap, frames, staged, rpc, rres,
                   panicked, lastEnd>>
    /\ UNCHANGED notBingVars

\* the session is updated with the new cookies and written to its file
ChatSession(ok) ==
    /\ ChatStep("session", ok, "session", "dial")
    /\ UNCHANGED <<connCtx, ws, pipe, gate, connLck, invocationID,
                   wpc, wlen, wres, wrap, frames, staged, rpc, rres,
                   panicked, lastEnd>>
    /\ UNCHANGED notBingVars

\* dialer.Dial: the socket is opened
ChatDial(ok) ==
    /\ ChatStep("dial", ok, "dial", "handshake")
    /\ ws' = IF ok THEN "open" ELSE ws
    /\ UNCHANGED <<connCtx, pipe, gate, connLck, invocationID,
                   wpc, wlen, wres, wrap, frames, staged, rpc, rres,
                   panicked, lastEnd>>
    /\ UNCHANGED notBingVars

\* a variant of ChatHandshake that does not wait for the acknowledgement
ChatHandshakeNoAck(ok) ==
    /\ ChatStep("handshake", ok, "handshake", "unlockOk")
    /\ UNCHANGED <<connCtx, ws, pipe, gate, connLck, invocationID,
                   wpc, wlen, wres, wrap, frames, staged, rpc, rres,
                   panicked, lastEnd>>
    /\ UNCHANGED notBingVars

\* ws.WriteMessage of the handshake frame
ChatHandshake(ok) ==
    /\ ChatStep("handshake", ok, "handshake", "ack")
    /\ UNCHANGED <<connCtx, ws, pipe, gate, connLck, invocationID,
                   wpc, wlen, wres, wrap, frames, staged, rpc, rres,
                   panicked, lastEnd>>
    /\ UNCHANGED notBingVars

\* ws.ReadMessage: one frame is read as the acknowledgement
ChatAck(ok) ==
    /\ ChatStep("ack", ok, "ack", "unlockOk")
    /\ UNCHANGED <<connCtx, ws, pipe, gate, connLck, invocationID,
                   wpc, wlen, wres, wrap, frames, staged, rpc, rres,
                   panicked, lastEnd>>
    /\ UNCHANGED notBingVars

\* Chat returns: the deferred unlock waits for the timer or ctx.Done and
\* unlocks the rate limit; the caller gets the connection or the error
ChatReturn ==
    /\ chatPc \in {"unlockOk", "unlockErr"}
    /\ gate' = FALSE
    /\ chatPc' = IF chatPc = "unlockOk" THEN "connected" ELSE "failed"
    /\ UNCHANGED <<chatLog, connCtx, ws, pipe, connLck, invocationID,
                   wpc, wlen, wres, wrap, frames, staged, rpc, rres,
                   panicked, lastEnd>>
    /\ UNCHANGED notBingVars

\* the context given to Chat is cancelled by its owner
CancelCtx ==
    /\ chatPc # "idle"
    /\ connCtx = "live"
    /\ connCtx' = "cancelled"
    /\ UNCHANGED <<chatPc, chatLog, ws, pipe, gate, connLck, invocationID,
                   wpc, wlen, wres, wrap, frames, staged, rpc, rres,
                   panicked, lastEnd>>
    /\ UNCHANGED notBingVars

\* conn.Close: cancels conn.ctx, closes the read side of the pipe (the
\* pending pipe writes fail) and closes the socket
Close ==
    /\ chatPc = "connected"
    /\ ws = "open"
    /\ connCtx' = "cancelled"
    /\ pipe' = "closed"
    /\ ws' = "closed"
    /\ staged' = {}
    /\ UNCHANGED <<chatPc, chatLog, gate, connLck, invocationID,
                   wpc, wlen, wres, wrap, frames, rpc, rres, panicked, lastEnd>>
    /\ UNCHANGED notBingVars

(***************************************************************************)
(* pkg/bing: conn.Write, conn.send and conn.getRequest.                    *)
(***************************************************************************)
\* the ceiling of len(message) in conn.Write
MaxMessageLen == 2000

\* the lengths of the messages handed to Write
MsgLens == {MaxMessageLen, MaxMessageLen + 1}

\* a variant of TooLong that also rejects a message at the ceiling
TooLongAtCeiling(n) ==
    n >= MaxMessageLen

\* if len(message) > 2000
TooLong(n) ==
    n > MaxMessageLen

\* string(rune(n)): the code point n as a string, U+FFFD when n is no
\* valid code point
RuneString(n) ==
    IF n < 0 \/ n > 1114111 \/ (n >= 55296 /\ n <= 57343)
    THEN [rune |-> 65533]
    ELSE [rune |-> n]

\* the map built by getRequest, as far as it varies between two frames; the
\* counter field records c.invocationID when the frame was built
getRequest ==
    [counter |-> invocationID,
     invocationId |-> RuneString(invocationID),
     isStartOfSession |-> (invocationID = 0)]

\* Write is called with a message of n bytes: a message that is too long
\* is rejected right away, any other goes on to the rate limit
CallWrite(w, n) ==
    /\ chatPc = "connected"
    /\ wpc[w] = "idle"
    /\ invocationID < MaxFrames
    /\ wlen' = [wlen EXCEPT ![w] = n]
    /\ IF TooLong(n)
       THEN /\ wres' = [wres EXCEPT ![w] = "errTooLong"]
            /\ wpc' = [wpc EXCEPT ![w] = "returned"]
       ELSE /\ wres' = [wres EXCEPT ![w] = "none"]
            /\ wpc' = [wpc EXCEPT ![w] = "gate"]
    /\ UNCHANGED <<chatPc, chatLog, connCtx, ws, pipe, gate, connLck,
                   invocationID, wrap, frames, staged, rpc, rres, panicked, lastEnd>>
    /\ UNCHANGED notBingVars

\* unlock := c.rateLimit.Lock(c.ctx): l.lck.Lock() blocks while the mutex
\* is locked, whatever the state of c.ctx
WriteLock(w) ==
    /\ wpc[w] = "gate"
    /\ ~gate
    /\ gate' = TRUE
    /\ wpc' = [wpc EXCEPT ![w] = "send"]
    /\ UNCHANGED <<chatPc, chatLog, connCtx, ws, pipe, connLck, invocationID,
                   wlen, wres, wrap, frames, staged, rpc, rres,
                   panicked, lastEnd>>
    /\ UNCHANGED notBingVars

\* a variant of SendFrame whose send does not lock the exchange mutex
SendFrameNoMutex(w, ok) ==
    /\ wpc[w] = "send"
    /\ ok => ws = "open"
    /\ frames' = Append(frames, getRequest)
    /\ invocationID' = invocationID + 1
    /\ connLck' = TRUE
    /\ IF ok
       THEN /\ wrap' = [wrap EXCEPT ![w] =
                           [NoWrap EXCEPT !.wk = "run", !.n = invocationID]]
            /\ wpc' = [wpc EXCEPT ![w] = "wait"]
            /\ wres' = wres
            /\ gate' = gate
       ELSE /\ wrap' = wrap
            /\ wpc' = [wpc EXCEPT ![w] = "returned"]
            /\ wres' = [wres EXCEPT ![w] = "errSend"]
            /\ gate' = FALSE
    /\ lastEnd' = IF ok THEN "none" ELSE lastEnd
    /\ UNCHANGED <<chatPc, chatLog, connCtx, ws, pipe,
                   wlen, staged, rpc, rres, panicked>>
    /\ UNCHANGED notBingVars

\* a variant of SendFrame whose getRequest does not increment the counter
SendFrameNoIncrement(w, ok) ==
    /\ wpc[w] = "send"
    /\ ~connLck
    /\ ok => ws = "open"
    /\ frames' = Append(frames, getRequest)
    /\ invocationID' = invocationID
    /\ connLck' = TRUE
    /\ IF ok
       THEN /\ wrap' = [wrap EXCEPT ![w] =
                           [NoWrap EXCEPT !.wk = "run", !.n = invocationID]]
            /\ wpc' = [wpc EXCEPT ![w] = "wait"]
            /\ wres' = wres
            /\ gate' = gate
       ELSE /\ wrap' = wrap
            /\ wpc' = [wpc EXCEPT ![w] = "returned"]
            /\ wres' = [wres EXCEPT ![w] = "errSend"]
            /\ gate' = FALSE
    /\ lastEnd' = IF ok THEN "none" ELSE lastEnd
    /\ UNCHANGED <<chatPc, chatLog, connCtx, ws, pipe,
                   wlen, staged, rpc, rres, panicked>>
    /\ UNCHANGED notBingVars

\* send: c.lck.Lock() blocks while the exchange mutex is locked; then the
\* frame is built by getRequest, which increments the counter, and written
\* to the socket.  On success Write gets a MessageWrapper and starts its
\* Worker.  On failure send returns the error with c.lck still locked, and
\* Write returns it through its deferred unlock of the rate limit.
\* (json.Marshal does not fail on the map of getRequest.)
SendFrame(w, ok) ==
    /\ wpc[w] = "send"
    /\ ~connLck
    /\ ok => ws = "open"
    /\ frames' = Append(frames, getRequest)
    /\ invocationID' = invocationID + 1
    /\ connLck' = TRUE
    /\ IF ok
       THEN /\ wrap' = [wrap EXCEPT ![w] =
                           [NoWrap EXCEPT !.wk = "run", !.n = invocationID]]
            /\ wpc' = [wpc EXCEPT ![w] = "wait"]
            /\ wres' = wres
            /\ gate' = gate
       ELSE /\ wrap' = wrap
            /\ wpc' = [wpc EXCEPT ![w] = "returned"]
            /\ wres' = [wres EXCEPT ![w] = "errSend"]
            /\ gate' = FALSE
    /\ lastEnd' = IF ok THEN "none" ELSE lastEnd
    /\ UNCHANGED <<chatPc, chatLog, connCtx, ws, pipe,
                   wlen, staged, rpc, rres, panicked>>
    /\ UNCHANGED notBingVars

\* for range m.Chan: a value is received; if m.Final { break }
WriteRecv(w) ==
    /\ wpc[w] = "wait"
    /\ wrap[w].chan # <<>>
    /\ wrap' = [wrap EXCEPT ![w].chan = <<>>]
    /\ wpc' = [wpc EXCEPT ![w] = IF wrap[w].final THEN "stage" ELSE "wait"]
    /\ UNCHANGED <<chatPc, chatLog, connCtx, ws, pipe, gate, connLck,
                   invocationID, wlen, wres, frames, staged, rpc, rres,
                   panicked, lastEnd>>
    /\ UNCHANGED notBingVars

\* for range m.Chan: the channel is closed and empty, the loop ends
WriteChanClosed(w) ==
    /\ wpc[w] = "wait"
    /\ wrap[w].chan = <<>>
    /\ wrap[w].closed
    /\ wpc' = [wpc EXCEPT ![w] = "stage"]
    /\ UNCHANGED <<chatPc, chatLog, connCtx, ws, pipe, gate, connLck,
                   invocationID, wlen, wres, wrap, frames, staged, rpc,
                   rres, panicked, lastEnd>>
    /\ UNCHANGED notBingVars

\* the reply a goroutine of Write hands to pipeWriter.Write
Reply(w) ==
    [n |-> wrap[w].n, final |-> wrap[w].final, answer |-> wrap[w].answer]

\* go func() { c.pipeWriter.Write([]byte(m.Answer.GetAnswer())) }() and
\* return len(b), nil: the goroutine blocks in the pipe until a Read takes
\* its reply; on a closed pipe the write fails and is only logged.  With
\* no frame received m.Answer is nil: GetAnswer panics or yields nothing.
\* Write returns through its deferred unlock of the rate limit.
WriteStage(w, nilPanics) ==
    /\ wpc[w] = "stage"
    /\ IF wrap[w].answer = "nil" /\ nilPanics
       THEN /\ panicked' = TRUE
            /\ staged' = staged
       ELSE /\ panicked' = panicked
            /\ staged' = IF pipe = "open"
                         THEN staged \cup {Reply(w)}
                         ELSE staged
    /\ wres' = [wres EXCEPT ![w] = "ok"]
    /\ wpc' = [wpc EXCEPT ![w] = "returned"]
    /\ gate' = FALSE
    /\ wrap' = [wrap EXCEPT ![w] = IF @.wk = "done" THEN NoWrap ELSE @]
    /\ UNCHANGED <<chatPc, chatLog, connCtx, ws, pipe, connLck,
                   invocationID, wlen, frames, rpc, rres, lastEnd>>
    /\ UNCHANGED notBingVars

\* the caller of Write has its result; the writer may call Write again
WriteReturn(w) ==
    /\ wpc[w] = "returned"
    /\ wpc' = [wpc EXCEPT ![w] = "idle"]
    /\ wlen' = [wlen EXCEPT ![w] = 0]
    /\ wres' = [wres EXCEPT ![w] = "none"]
    /\ UNCHANGED <<chatPc, chatLog, connCtx, ws, pipe, gate, connLck,
                   invocationID, wrap, frames, staged, rpc, rres, panicked, lastEnd>>
    /\ UNCHANGED notBingVars

(***************************************************************************)
(* The Worker of the MessageWrapper that send hands to Write (go           *)
(* m.Worker()).  It reads the frames of the exchange from the socket,      *)
(* keeps the latest answer in m.Answer, sets m.Final on the final frame    *)
(* and signals every frame on m.Chan, a channel with room for one value.   *)
(* It holds c.lck, which send locked, until it returns.                    *)
(***************************************************************************)
\* an update frame: a partial answer is kept and signalled
WorkerUpdate(w) ==
    /\ wrap[w].wk = "run"
    /\ ws = "open"
    /\ wrap[w].chan = <<>>
    /\ wrap' = [wrap EXCEPT ![w].answer = "partial",
                            ![w].chan = <<"update">>]
    /\ UNCHANGED <<chatPc, chatLog, connCtx, ws, pipe, gate, connLck,
                   invocationID, wpc, wlen, wres, frames, staged, rpc,
                   rres, panicked, lastEnd>>
    /\ UNCHANGED notBingVars

\* the final frame: m.Final is set and the whole answer kept
WorkerFinal(w) ==
    /\ wrap[w].wk = "run"
    /\ ws = "open"
    /\ wrap' = [wrap EXCEPT ![w].answer = "final",
                            ![w].final = TRUE,
                            ![w].wk = "signal"]
    /\ UNCHANGED <<chatPc, chatLog, connCtx, ws, pipe, gate, connLck,
                   invocationID, wpc, wlen, wres, frames, staged, rpc,
                   rres, panicked, lastEnd>>
    /\ UNCHANGED notBingVars

\* the final frame is signalled on m.Chan and the Worker returns: the
\* exchange mutex is released; m.Chan is closed or left open.  A wrapper
\* that neither Write nor the Worker uses any more is dropped.
WorkerReturn(w, close) ==
    /\ wrap[w].wk = "signal"
    /\ wrap[w].chan = <<>>
    /\ wrap' = [wrap EXCEPT ![w] =
                    IF wpc[w] \in {"wait", "stage"}
                    THEN [@ EXCEPT !.wk = "done", !.chan = <<"final">>,
                                   !.closed = close]
                    ELSE NoWrap]
    /\ connLck' = FALSE
    /\ lastEnd' = "final"
    /\ UNCHANGED <<chatPc, chatLog, connCtx, ws, pipe, gate,
                   invocationID, wpc, wlen, wres, frames, staged, rpc,
                   rres, panicked>>
    /\ UNCHANGED notBingVars

\* the frame stream ends or fails before the final frame: reading the
\* socket or decoding a frame returns an error and the Worker returns
WorkerFail(w, close) ==
    /\ wrap[w].wk = "run"
    /\ wrap' = [wrap EXCEPT ![w] =
                    IF wpc[w] \in {"wait", "stage"}
                    THEN [@ EXCEPT !.wk = "done", !.closed = close]
                    ELSE NoWrap]
    /\ connLck' = FALSE
    /\ lastEnd' = "failed"
    /\ UNCHANGED <<chatPc, chatLog, connCtx, ws, pipe, gate,
                   invocationID, wpc, wlen, wres, frames, staged, rpc,
                   rres, panicked>>
    /\ UNCHANGED notBingVars

(***************************************************************************)
(* pkg/bing: conn.Read.                                                    *)
(***************************************************************************)

\* Read is called: a cancelled c.ctx returns its error right away, else
\* the reader blocks in c.pipeReader.Read
CallRead ==
    /\ chatPc = "connected"
    /\ rpc = "idle"
    /\ IF connCtx = "cancelled"
       THEN /\ rres' = "errCtx"
            /\ rpc' = "returned"
       ELSE /\ rres' = "none"
            /\ rpc' = "reading"
    /\ UNCHANGED <<chatPc, chatLog, connCtx, ws, pipe, gate, connLck,
                   invocationID, wpc, wlen, wres, wrap, frames, staged,
                   panicked, lastEnd>>
    /\ UNCHANGED notBingVars

\* pipeReader.Read takes the reply of one of the pending pipe writes
ReadReply ==
    /\ rpc = "reading"
    /\ \E s \in staged : staged' = staged \ {s}
    /\ rres' = "ok"
    /\ rpc' = "returned"
    /\ UNCHANGED <<chatPc, chatLog, connCtx, ws, pipe, gate, connLck,
                   invocationID, wpc, wlen, wres, wrap, frames,
                   panicked, lastEnd>>
    /\ UNCHANGED notBingVars

\* pipeReader.Read on a pipe that Close has closed
ReadClosed ==
    /\ rpc = "reading"
    /\ pipe = "closed"
    /\ rres' = "errClosedPipe"
    /\ rpc' = "returned"
    /\ UNCHANGED <<chatPc, chatLog, connCtx, ws, pipe, gate, connLck,
                   invocationID, wpc, wlen, wres, wrap, frames, staged,
                   panicked, lastEnd>>
    /\ UNCHANGED notBingVars

\* the caller of Read has its result; the reader may call Read again
ReadReturn ==
    /\ rpc = "returned"
    /\ rpc' = "idle"
    /\ rres' = "none"
    /\ UNCHANGED <<chatPc, chatLog, connCtx, ws, pipe, gate, connLck,
                   invocationID, wpc, wlen, wres, wrap, frames, staged,
                   panicked, lastEnd>>
    /\ UNCHANGED notBingVars

(***************************************************************************)
(* The specification of one bing client with one connection.               *)
(***************************************************************************)
InitBing ==
    /\ BingStart
    /\ LockIdle
    /\ MemIdle
    /\ ParseIdle
    /\ ExecIdle
    /\ AutoIdle
    /\ BulkIdle
    /\ RwIdle

NextBing ==
    /\ ~panicked
    /\ \/ ChatCall
       \/ ChatLock
       \/ \E ok \in BOOLEAN : ChatDo(ok)
       \/ \E r \in Responses : ChatResponse(r)
       \/ \E ok \in BOOLEAN : ChatSession(ok)
       \/ \E ok \in BOOLEAN : ChatDial(ok)
       \/ \E ok \in BOOLEAN : ChatHandshake(ok)
       \/ \E ok \in BOOLEAN : ChatAck(ok)
       \/ ChatReturn
       \/ CancelCtx
       \/ Close
       \/ \E w \in Writers, n \in MsgLens : CallWrite(w, n)
       \/ \E w \in Writers : WriteLock(w)
       \/ \E w \in Writers, ok \in BOOLEAN : SendFrame(w, ok)
       \/ \E w \in Writers : WorkerUpdate(w)
       \/ \E w \in Writers : WorkerFinal(w)
       \/ \E w \in Writers, close \in BOOLEAN : WorkerReturn(w, close)
       \/ \E w \in Writers, close \in BOOLEAN : WorkerFail(w, close)
       \/ \E w \in Writers : WriteRecv(w)
       \/ \E w \in Writers : WriteChanClosed(w)
       \/ \E w \in Writers, nilPanics \in BOOLEAN : WriteStage(w, nilPanics)
       \/ \E w \in Writers : WriteReturn(w)
       \/ CallRead
       \/ ReadReply
       \/ ReadClosed
       \/ ReadReturn

SpecBing == InitBing /\ [][NextBing]_vars

(***************************************************************************)
(* Claims on the bing connection.                                          *)
(***************************************************************************)
\* the writers whose exchange is in flight: the frame is sent and the
\* Worker has not returned
InFlight == {w \in Writers : wrap[w].wk \in {"run", "signal"}}

\* a chat frame is built in this step
FrameBuilt == Len(frames') > Len(frames)

\* C11: every reply staged for Read belongs to an exchange for which the
\* final frame was observed; an exchange whose frame stream ended before
\* the final frame stages nothing.
C11_FinalBeforeStaged == \A s \in staged : s.final

C13_CancelledReturns ==
    [][/\ \A w \in Writers :
            (connCtx = "cancelled" /\ wpc[w] = "idle" /\ wpc'[w] # "idle")
                => (wpc'[w] = "returned" /\ wres'[w] = "errCtx")
       /\ (connCtx = "cancelled" /\ rpc = "idle" /\ rpc' # "idle")
                => (rpc' = "returned" /\ rres' = "errCtx")
      ]_vars

\* C18: a Write with a message longer than 2000 returns an error and
\* leaves the rate limit, the socket, the counter, the frames and the
\* staged replies as they are; a message of exactly 2000 goes on to the
\* rate limit.
C18_LengthGuard ==
    [][\A w \in Writers :
          (wpc[w] = "idle" /\ wpc'[w] # "idle") =>
              IF wlen'[w] > 2000
              THEN /\ wpc'[w] = "returned"
                   /\ wres'[w] = "errTooLong"
                   /\ UNCHANGED <<gate, connLck, ws, invocationID, frames,
                                  staged, wrap>>
              ELSE /\ wlen'[w] = 2000 => wpc'[w] = "gate"
                   /\ wres'[w] = "none"
      ]_vars

\* one Write was rejected with a message of 2001 while another Write with
\* a message of 2000 has sent its frame
C18_Witness ==
    \E w1, w2 \in Writers :
        /\ wpc[w1] = "returned" /\ wres[w1] = "errTooLong" /\ wlen[w1] = 2001
        /\ wpc[w2] = "wait" /\ wlen[w2] = 2000

\* the log of Chat is a prefix of the steps in their order
ChatInOrder ==
    /\ Len(chatLog) <= Len(ChatSteps)
    /\ \A i \in DOMAIN chatLog : chatLog[i] = ChatSteps[i]

\* C19: Chat completes its steps in the order request, conversation,
\* session, socket, handshake, acknowledgement; it returns a connection
\* only after all of them, no chat frame is built before the
\* acknowledgement, and a Chat with a failed step returns the error and
\* no connection: nothing is ever written or read on it.
C19_ChatOrder ==
    /\ ChatInOrder
    /\ chatPc \in {"unlockOk", "connected"} => chatLog = ChatSteps
    /\ frames # <<>> => chatLog = ChatSteps
    /\ chatPc \in {"unlockErr", "failed"} =>
          /\ chatLog # ChatSteps
          /\ frames = <<>>
          /\ \A w \in Writers : wpc[w] = "idle"
          /\ rpc = "idle"

\* Chat has returned a connection and a chat frame was sent on it
C19_Witness == chatPc = "connected" /\ frames # <<>> /\ InFlight # {}

\* C20: the i-th frame built on the connection carries the counter i-1,
\* the counter of the connection is the number of frames built, no two
\* frames carry the same counter, and isStartOfSession is set on the
\* frame with counter 0 and on no other.
C20_Counter ==
    /\ invocationID = Len(frames)
    /\ \A i \in DOMAIN frames :
          /\ frames[i].counter = i - 1
          /\ frames[i].isStartOfSession = (frames[i].counter = 0)
    /\ \A i, j \in DOMAIN frames :
          i # j => frames[i].counter # frames[j].counter

\* two writers have built one frame each
C20_Witness ==
    /\ Len(frames) = 2
    /\ frames[1].isStartOfSession
    /\ ~frames[2].isStartOfSession
    /\ \A w \in Writers : wres[w] = "ok" \/ wpc[w] = "wait"

(***************************************************************************)
(* json.MarshalIndent(result, "", "  ") of the Auto loop, on the values    *)
(* of the results.                                                         *)
(***************************************************************************)
RECURSIVE MarshalStringNoEscape(_)
\* a variant of MarshalString that writes quotes and backslashes as they
\* are
MarshalStringNoEscape(cs) ==
    IF cs = <<>> THEN <<>>
    ELSE <<Head(cs)>> \o MarshalStringNoEscape(Tail(cs))

RECURSIVE MarshalString(_)
\* the characters json.Marshal writes between the quotes for the string
\* cs: quotes, backslashes and control characters are escaped with a
\* backslash, the characters <, > and & are written as \u escapes, and a
\* byte that is no valid UTF-8 is written as the escape of U+FFFD
MarshalString(cs) ==
    IF cs = <<>> THEN <<>>
    ELSE (CASE Head(cs) = Quote -> <<Backslash, Quote>>
            [] Head(cs) = Backslash -> <<Backslash, Backslash>>
            [] Head(cs) = "\n" -> <<Backslash, "n">>
            [] Head(cs) = "\r" -> <<Backslash, "r">>
            [] Head(cs) = "\t" -> <<Backslash, "t">>
            [] Head(cs) = "<" -> <<Backslash, "u", "0", "0", "3", "c">>
            [] Head(cs) = ">" -> <<Backslash, "u", "0", "0", "3", "e">>
            [] Head(cs) = "&" -> <<Backslash, "u", "0", "0", "2", "6">>
            [] Head(cs) = InvalidByte -> <<Backslash, "u", "f", "f", "f", "d">>
            [] OTHER -> <<Head(cs)>>) \o MarshalString(Tail(cs))

RECURSIVE Indent(_)
\* a new line and the indent of depth d
Indent(d) == IF d = 0 THEN <<"\n">> ELSE Indent(d - 1) \o <<" ", " ">>

RECURSIVE MarshalIndent(_, _)
\* the text of the value val at depth d: every element of a list and every
\* entry of an object on a line of its own, an empty list as [] and an
\* empty object as {}
MarshalIndent(val, d) ==
    CASE val.t = "str" -> <<Quote>> \o MarshalString(val.v) \o <<Quote>>
      [] val.t = "num" -> val.v
      [] val.t = "null" -> <<"n", "u", "l", "l">>
      [] val.t = "bool" ->
            IF val.v[1] = "true" THEN <<"t", "r", "u", "e">>
            ELSE <<"f", "a", "l", "s", "e">>
      [] val.t = "arr" ->
            IF val.v = <<>> THEN <<"[", "]">>
            ELSE <<"[">> \o Indent(d + 1)
                 \o Join([j \in 1..Len(val.v) |->
                             MarshalIndent(val.v[j], d + 1)],
                         <<",">> \o Indent(d + 1))
                 \o Indent(d) \o <<"]">>
      [] val.t = "obj" ->
            IF val.v = <<>> THEN <<"{", "}">>
            ELSE <<"{">> \o Indent(d + 1)
                 \o Join([j \in 1..Len(val.v) |->
                             <<Quote>> \o MarshalString(val.v[j].k)
                               \o <<Quote, ":", " ">>
                               \o MarshalIndent(val.v[j].val, d + 1)],
                         <<",">> \o Indent(d + 1))
                 \o Indent(d) \o <<"}">>

\* the result list res ([]map[string]any) as a value: a list of objects
\* with one entry each
ResultValue(res) ==
    JArr([j \in 1..Len(res) |-> JObj(<<res[j]>>)])

\* string(js) for js, _ := json.MarshalIndent(result, "", "  ")
Serialize(res) == MarshalIndent(ResultValue(res), 0)

RECURSIVE Coerce(_)
\* the value val as json.Marshal writes it: in every string the bytes that
\* are no valid UTF-8 are replaced by U+FFFD
Coerce(val) ==
    CASE val.t = "str" ->
            JStr([j \in 1..Len(val.v) |->
                    IF val.v[j] = InvalidByte THEN ReplacementChar
                    ELSE val.v[j]])
      [] val.t = "arr" -> JArr([j \in 1..Len(val.v) |-> Coerce(val.v[j])])
      [] val.t = "obj" ->
            JObj([j \in 1..Len(val.v) |->
                    [k |-> val.v[j].k, val |-> Coerce(val.v[j].val)]])
      [] OTHER -> val

(***************************************************************************)
(* Claim on the serialization of the results.                              *)
(***************************************************************************)
\* the requests Parse is to return for the serialization of res when the
\* args of an entry are made of the value val(j) of the entry
RequestsOf(res, val(_)) ==
    [j \in 1..Len(res) |-> [name |-> res[j].k, args |-> ToArgs(val(j))]]

RECURSIVE Execute(_)
\* execute(ctx, reqs): what it can return and do.  results are the results
\* appended, ran the names of the commands run, exit whether the exit
\* function was called
Execute(rs) ==
    IF rs = <<>>
    THEN {[results |-> <<>>, ran |-> <<>>, exit |-> FALSE]}
    ELSE LET name == FixName(Head(rs).name)
         IN  IF name \notin Registry THEN Execute(Tail(rs))
             ELSE {[results |-> (IF out = Nil THEN <<>>
                                 ELSE <<[k |-> name, val |-> out]>>)
                                   \o r.results,
                    ran |-> <<name>> \o r.ran,
                    exit |-> (name = exit) \/ r.exit] :
                      out \in RunResults(name, Head(rs).args),
                      r \in Execute(Tail(rs))}

\* the text of the error Parse returns for text, wrapped by Run
ParseErrorMessage(text) ==
    LET startIdx == Index(text, "[")
        endIdx == LastIndex(text, "]")
    IN  <<"couldn't parse commands: ">> \o
        (IF startIdx = 0 \/ endIdx = 0
         THEN <<"no json array found: ">> \o text
         ELSE <<"couldn't unmarshal json array (">>
                \o SubSeq(text, startIdx, endIdx) \o <<"): ", "error">>)

error == <<"e", "r", "r", "o", "r">>

\* a variant of Run that returns no result when Parse fails
RunDropsParseError(text) ==
    UNION {CASE p.status = "panic" ->
                  {[parse |-> "panic", result |-> <<>>, ran |-> <<>>,
                    exit |-> FALSE]}
             [] p.status = "error" ->
                  {[parse |-> "error", result |-> <<>>, ran |-> <<>>,
                    exit |-> FALSE]}
             [] p.status = "ok" ->
                  {[parse |-> "ok", result |-> e.results, ran |-> e.ran,
                    exit |-> e.exit] : e \in Execute(p.cmds)}
           : p \in Parse(text)}

\* runner.Run(ctx, input): what it can return and do.  When Parse returns
\* an error the only result is the text of the error under the key error;
\* else the requests are executed.
Run(text) ==
    UNION {CASE p.status = "panic" ->
                  {[parse |-> "panic", result |-> <<>>, ran |-> <<>>,
                    exit |-> FALSE]}
             [] p.status = "error" ->
                  {[parse |-> "error",
                    result |-> <<[k |-> error,
                                  val |-> JStr(ParseErrorMessage(text))]>>,
                    ran |-> <<>>, exit |-> FALSE]}
             [] p.status = "ok" ->
                  {[parse |-> "ok", result |-> e.results, ran |-> e.ran,
                    exit |-> e.exit] : e \in Execute(p.cmds)}
           : p \in Parse(text)}

\* the first prompt of the loop
Prompt == <<"prompt">>

\* one command object of a reply
Cmd(name, args) == JObj(<<[k |-> name, val |-> args]>>)

\* the replies the chat gives: a talk command, an exit command, a shell
\* command followed by exit and talk, prose without an array, an array cut
\* short, and brackets the wrong way round
Replies ==
    { Render(JArr(<<Cmd(talk, JStr(<<"h", "i">>))>>), <<" ">>),
      Render(JArr(<<Cmd(exit, JArr(<<>>))>>), <<>>),
      <<"o", "k", " ">>
        \o Render(JArr(<<Cmd(bash, JStr(<<"l", "s">>)),
                         Cmd(<<"E", "x", "i", "t">>, JArr(<<>>)),
                         Cmd(talk, JStr(<<"b", "y", "e">>))>>), <<>>),
      <<"n", "o", " ", "c", "o", "m", "m", "a", "n", "d", "s">>,
      <<"[", "{", Quote, "t", "a", "l", "k", Quote, ":", "]">>,
      <<"]", " ", "[">> }

InitAuto ==
    /\ cfgSteps \in 0..MaxSteps
    /\ send = Prompt
    /\ AutoStart
    /\ LockIdle
    /\ MemIdle
    /\ ParseIdle
    /\ ExecIdle
    /\ BingIdle
    /\ BulkIdle
    /\ RwIdle

\* Auto returns err; by names the statement that returned
Return(err, by) == [err |-> err, by |-> by]

\* a variant of AutoCheck that compares steps > cfg.Steps
AutoCheckOffByOne ==
    /\ autoPc = "check"
    /\ IF autoCtx = "cancelled"
       THEN /\ autoPc' = "done"
            /\ autoRet' = Return("nil", "ctx")
            /\ steps' = steps
       ELSE IF cfgSteps > 0 /\ steps > cfgSteps
       THEN /\ autoPc' = "done"
            /\ autoRet' = Return("nil", "steps")
            /\ steps' = steps
       ELSE /\ steps < MaxIter
            /\ steps' = steps + 1
            /\ autoPc' = "write"
            /\ autoRet' = autoRet
    /\ UNCHANGED <<cfgSteps, send, recv, autoCtx, writes, written, lastRun>>
    /\ UNCHANGED notAutoVars

\* a variant of AutoCheck that does not look at the context
AutoCheckNoCtx ==
    /\ autoPc = "check"
    /\ IF cfgSteps > 0 /\ steps >= cfgSteps
       THEN /\ autoPc' = "done"
            /\ autoRet' = Return("nil", "steps")
            /\ steps' = steps
       ELSE /\ steps < MaxIter
            /\ steps' = steps + 1
            /\ autoPc' = "write"
            /\ autoRet' = autoRet
    /\ UNCHANGED <<cfgSteps, send, recv, autoCtx, writes, written, lastRun>>
    /\ UNCHANGED notAutoVars

\* the head of the loop: return nil when the context is done, return nil
\* when cfg.Steps > 0 and steps >= cfg.Steps, else count the step
AutoCheck ==
    /\ autoPc = "check"
    /\ IF autoCtx = "cancelled"
       THEN /\ autoPc' = "done"
            /\ autoRet' = Return("nil", "ctx")
            /\ steps' = steps
       ELSE IF cfgSteps > 0 /\ steps >= cfgSteps
       THEN /\ autoPc' = "done"
            /\ autoRet' = Return("nil", "steps")
            /\ steps' = steps
       ELSE /\ steps < MaxIter
            /\ steps' = steps + 1
            /\ autoPc' = "write"
            /\ autoRet' = autoRet
    /\ UNCHANGED <<cfgSteps, send, recv, autoCtx, writes, written, lastRun>>
    /\ UNCHANGED notAutoVars

\* chat.Write([]byte(send)): an error ends Auto
AutoWrite(ok) ==
    /\ autoPc = "write"
    /\ writes' = writes + 1
    /\ written' = send
    /\ IF ok
       THEN /\ autoPc' = "read"
            /\ autoRet' = autoRet
       ELSE /\ autoPc' = "done"
            /\ autoRet' = Return("couldn't write message", "write")
    /\ UNCHANGED <<cfgSteps, steps, send, recv, autoCtx, lastRun>>
    /\ UNCHANGED notAutoVars

\* chat.Read(buf): an error ends Auto, else recv is the reply
AutoRead(ok, reply) ==
    /\ autoPc = "read"
    /\ IF ok
       THEN /\ autoPc' = "run"
            /\ recv' = reply
            /\ autoRet' = autoRet
       ELSE /\ autoPc' = "done"
            /\ recv' = recv
            /\ autoRet' = Return("couldn't read message", "read")
    /\ UNCHANGED <<cfgSteps, steps, send, autoCtx, writes, written, lastRun>>
    /\ UNCHANGED notAutoVars

\* a variant of AutoRun that writes the reply back as the next prompt
AutoRunEchoesReply ==
    /\ autoPc = "run"
    /\ \E o \in Run(recv) :
          /\ lastRun' = o
          /\ IF o.parse = "panic"
             THEN /\ autoPc' = "panic"
                  /\ send' = send
                  /\ autoCtx' = autoCtx
             ELSE /\ autoPc' = "check"
                  /\ send' = recv
                  /\ autoCtx' = IF o.exit THEN "cancelled" ELSE autoCtx
    /\ UNCHANGED <<cfgSteps, steps, recv, autoRet, writes, written>>
    /\ UNCHANGED notAutoVars

\* result := runner.Run(ctx, recv) and send = its serialization; the exit
\* command cancels the context of the loop; a panic of Parse ends the
\* program.  (json.MarshalIndent does not fail on the results.)
AutoRun ==
    /\ autoPc = "run"
    /\ \E o \in Run(recv) :
          /\ lastRun' = o
          /\ IF o.parse = "panic"
             THEN /\ autoPc' = "panic"
                  /\ send' = send
                  /\ autoCtx' = autoCtx
             ELSE /\ autoPc' = "check"
                  /\ send' = Serialize(o.result)
                  /\ autoCtx' = IF o.exit THEN "cancelled" ELSE autoCtx
    /\ UNCHANGED <<cfgSteps, steps, recv, autoRet, writes, written>>
    /\ UNCHANGED notAutoVars

\* the context given to Auto is cancelled by its owner
AutoCancel ==
    /\ autoPc \notin {"done", "panic"}
    /\ autoCtx = "live"
    /\ autoCtx' = "cancelled"
    /\ UNCHANGED <<cfgSteps, steps, send, recv, autoPc, autoRet, writes,
                   written, lastRun>>
    /\ UNCHANGED notAutoVars

NextAuto ==
    \/ AutoCheck
    \/ \E ok \in BOOLEAN : AutoWrite(ok)
    \/ \E ok \in BOOLEAN, reply \in Replies : AutoRead(ok, reply)
    \/ AutoRun
    \/ AutoCancel

SpecAuto == InitAuto /\ [][NextAuto]_vars

(***************************************************************************)
(* Claims on the Auto loop.                                                *)
(***************************************************************************)
\* C14: with cfg.Steps = N > 0 the loop never calls chat.Write more than N
\* times, and when the step counter ends the loop Auto has made exactly N
\* Write/Read exchanges and returns nil; with cfg.Steps = 0 the step
\* counter never ends the loop.
C14_StepsBound ==
    /\ writes = IF autoPc = "write" THEN steps - 1 ELSE steps
    /\ cfgSteps > 0 => writes <= cfgSteps
    /\ (autoPc = "done" /\ autoRet.by = "steps") =>
          /\ cfgSteps > 0
          /\ writes = cfgSteps
          /\ autoRet.err = "nil"
    /\ cfgSteps = 0 => (autoPc = "done" => autoRet.by # "steps")

\* Auto with cfg.Steps = 2 was ended by the step counter after two
\* exchanges
C14_Witness ==
    /\ cfgSteps = 2
    /\ autoPc = "done"
    /\ autoRet = Return("nil", "steps")
    /\ writes = 2
    /\ lastRun.parse = "ok"

\* C15: once the exit command has run in a step of the loop, no further
\* prompt is written and the next check of the loop returns nil.
C15_ExitStops ==
    [][lastRun.exit =>
          /\ writes' = writes
          /\ written' = written
          /\ autoPc = "check" => (autoPc' = "done" /\ autoRet'.err = "nil")
          /\ autoPc' # "write"
      ]_vars

\* Auto returned nil after a step whose reply held the exit command
\* between two other commands
C15_Witness ==
    /\ autoPc = "done"
    /\ autoRet.err = "nil"
    /\ lastRun.exit
    /\ Len(lastRun.ran) = 3

\* C16: when Parse returns an error for the reply, Run runs no command and
\* returns one result, the text of the error under the key error; the loop
\* goes on to its next check with the serialization of this result as the
\* next prompt, and the next Write hands over this serialization.
C16_ParseErrorResult ==
    lastRun.parse = "error" =>
        /\ lastRun.ran = <<>>
        /\ ~lastRun.exit
        /\ Len(lastRun.result) = 1
        /\ lastRun.result[1].k = error
        /\ autoPc # "run" =>
              lastRun.result[1].val = JStr(ParseErrorMessage(recv))
        /\ send = Serialize(lastRun.result)
        /\ autoPc = "read" => written = send
        /\ autoPc = "done" => autoRet.by \in {"ctx", "steps", "write", "read"}
        /\ autoPc # "panic"

\* the loop has written the serialization of the error result of a reply
\* without commands as its next prompt
C16_Witness ==
    /\ lastRun.parse = "error"
    /\ autoPc = "read"
    /\ writes = 2
    /\ written = Serialize(lastRun.result)

(***************************************************************************)
(* The invocationId of a chat frame.                                       *)
(***************************************************************************)
\* the code points of the decimal digits "0" .. "9"
DigitRunes == <<48, 49, 50, 51, 52, 53, 54, 55, 56, 57>>

\* the decimal representation of n >= 0, as the code points of its digits
RECURSIVE Decimal(_)
Decimal(n) ==
    IF n < 10
    THEN <<DigitRunes[n + 1]>>
    ELSE Decimal(n \div 10) \o <<DigitRunes[(n % 10) + 1]>>

\* the code points of the string that getRequest puts in "invocationId"
InvocationIdRunes(f) == <<f.invocationId.rune>>

\* C21: the invocationId of the k-th chat frame of a connection (k counted
\* from 0) is the decimal representation of k.
C21_InvocationIdDecimal ==
    \A i \in DOMAIN frames : InvocationIdRunes(frames[i]) = Decimal(i - 1)

(***************************************************************************)
(* internal/command: the names of the commands.  The runner is started on  *)
(* batches whose requests spell the names of the commands in many ways.    *)
(***************************************************************************)
\* largest number of requests in a batch of spelled names
MaxNamed == 2

\* the names as a reply may spell them
NameChoices ==
    { <<" ", "W", "r", "i", "t", "e", "-", "F", "i", "l", "e", " ">>,
      <<"W", "R", "I", "T", "E", " ", "F", "I", "L", "E">>,
      <<"r", "e", "a", "d", "_", "f", "i", "l", "e">>,
      <<"\t", "D", "e", "l", "e", "t", "e", "-", "f", "i", "l", "e", "\n">>,
      <<"l", "i", "s", "t", " ", "f", "i", "l", "e", "s">>,
      <<"L", "i", "s", "t">>,
      <<"T", "a", "l", "k", " ">>,
      <<"t", "h", " ", "i", "n", "k">>,
      <<"w", "r", "i", "t", "e", "_", "f", "i", "l", "e", "s">>,
      <<"r", "e", "a", "d", "\t", "f", "i", "l", "e">>,
      <<" ", "E", "X", "I", "T">>,
      <<" ", "-", "b", "a", "s", "h">>,
      <<"B", "a", "s", "h">> }

\* New(...) and a call of Run with such a batch
InitNames ==
    /\ reqs \in SeqsUpTo({[name |-> n, args |-> <<JStr(<<"f">>)>>] :
                             n \in NameChoices}, MaxNamed)
    /\ execPc = "idle"
    /\ ExecStart
    /\ LockIdle
    /\ MemIdle
    /\ ParseIdle
    /\ BingIdle
    /\ AutoIdle
    /\ BulkIdle
    /\ RwIdle

SpecNames == InitNames /\ [][NextExec]_vars

\* one character of a normalized name: lower case, and an underscore for a
\* hyphen or a space
IsNormalChar(c, n) ==
    IF c \in {"-", " "} THEN n = "_"
    ELSE IF \E j \in 1..26 : UpperCase[j] = c
    THEN \E j \in 1..26 : UpperCase[j] = c /\ LowerCase[j] = n
    ELSE n = c

\* n is the name raw without its surrounding whitespace, in lower case,
\* with an underscore for each hyphen and space
IsNormalOf(raw, n) ==
    \E a, b \in 0..Len(raw) :
        /\ a + b <= Len(raw)
        /\ \A i \in 1..a : IsSpace(raw[i])
        /\ \A i \in (Len(raw) - b + 1)..Len(raw) : IsSpace(raw[i])
        /\ a + b < Len(raw) =>
              ~IsSpace(raw[a + 1]) /\ ~IsSpace(raw[Len(raw) - b])
        /\ Len(n) = Len(raw) - a - b
        /\ \A i \in 1..Len(n) : IsNormalChar(raw[a + i], n[i])

\* the long names and the canonical name each stands for
Aliases ==
    { <<<<"w", "r", "i", "t", "e", "_", "f", "i", "l", "e">>, write>>,
      <<<<"r", "e", "a", "d", "_", "f", "i", "l", "e">>, read>>,
      <<<<"d", "e", "l", "e", "t", "e", "_", "f", "i", "l", "e">>, delete>>,
      <<<<"l", "i", "s", "t", "_", "f", "i", "l", "e", "s">>, list>> }

\* c is the canonical name of raw
IsCanonicalOf(raw, c) ==
    \E n \in {c} \cup {al[1] : al \in Aliases} :
        /\ IsNormalOf(raw, n)
        /\ IF \E al \in Aliases : al[1] = n
           THEN <<n, c>> \in Aliases
           ELSE c = n

\* C22: every command name is normalized (surrounding whitespace trimmed,
\* lower case, an underscore for each hyphen and space) and the long names
\* write_file, read_file, delete_file, list_files stand for write, read,
\* delete, list; the handler that runs and the key of the result are those
\* of this canonical name, and no handler runs when the canonical name is
\* not registered.
C22_CanonicalName ==
    [][idx' = idx + 1 =>
          IF \E c \in Registry : IsCanonicalOf(reqs[idx].name, c)
          THEN /\ Len(ran') = Len(ran) + 1
               /\ IsCanonicalOf(reqs[idx].name, ran'[Len(ran')].name)
               /\ Len(results') = Len(results) + 1 =>
                     IsCanonicalOf(reqs[idx].name, results'[Len(results')].k)
          ELSE ran' = ran /\ results' = results]_vars

\* C22 witness: execute returned for a batch that spells write_file with
\* spaces, capitals and a hyphen and list_files with a space; the handlers
\* write and list ran and the results are keyed write and list.
C22_Witness ==
    /\ execPc = "done"
    /\ Len(reqs) = 2
    /\ reqs[1].name = <<" ", "W", "r", "i", "t", "e", "-", "F", "i", "l", "e", " ">>
    /\ reqs[2].name = <<"l", "i", "s", "t", " ", "f", "i", "l", "e", "s">>
    /\ Len(ran) = 2 /\ ran[1].name = write /\ ran[2].name = list
    /\ Len(results) = 2 /\ results[1].k = write /\ results[2].k = list

(***************************************************************************)
(* Bulk (igogpt.go lines 329-496), from the parsed inputs on.              *)
(*                                                                         *)
(* A chat is an io.ReadWriter over an io.Pipe: Write starts a goroutine    *)
(* that writes the reply to the pipe, and Read returns what the pipe       *)
(* holds, at most as many bytes as the buffer has.  A pipe serves one      *)
(* Write at a time until all its bytes are read; which of several waiting  *)
(* goroutines comes next is not decided by the program.                    *)
(***************************************************************************)
\* largest number of groups in the inputs
MaxGroups == 2
\* largest number of prompts in one group
MaxPrompts == 2

\* buf := make([]byte, 1024*64)
ReadBufSize == 65536

\* a group of n prompts of the input file, each prompt a text of its own
Group(g, n) == [p \in 1..n |-> <<"prompt", g, p>>]

\* the lengths of the replies of a chat
ReplyLens == {5, ReadBufSize + 5}

\* the code that reads the input file keeps a group of a text file that
\* has no prompt (lines 381-396)
InputChoices ==
    {[g \in 1..Len(ns) |-> Group(g, ns[g])] :
        ns \in SeqsUpTo(0..MaxPrompts, MaxGroups) \ {<<>>}}

InitBulk ==
    /\ inputs \in InputChoices
    /\ BulkStart
    /\ LockIdle
    /\ MemIdle
    /\ ParseIdle
    /\ ExecIdle
    /\ BingIdle
    /\ AutoIdle
    /\ RwIdle

\* return fmt.Errorf(...)
BulkFail(err) ==
    /\ bulkRet' = err
    /\ bulkPc' = "done"

\* the head of the outer loop (lines 442-449): the loop ends after the last
\* group or when exit is set; otherwise chatFunc creates the chat of the
\* group, with a pipe of its own
BulkGroup(ok) ==
    /\ bulkPc = "group"
    /\ IF bulkExit \/ group > Len(inputs)
       THEN /\ ok
            /\ bulkPc' = "marshal"
            /\ UNCHANGED <<chats, pipeCur, pipeWait, msgs, prompt, bulkRet>>
       ELSE IF ok
       THEN /\ chats' = chats + 1
            /\ pipeCur' = <<>>
            /\ pipeWait' = {}
            /\ msgs' = <<>>
            /\ prompt' = 1
            /\ bulkPc' = "prompt"
            /\ UNCHANGED bulkRet
       ELSE /\ BulkFail("couldn't create chat")
            /\ UNCHANGED <<chats, pipeCur, pipeWait, msgs, prompt>>
    /\ UNCHANGED <<inputs, group, bulkCtx, bulkExit, output, outFile>>
    /\ UNCHANGED notBulkVars

\* the head of the inner loop (lines 451-462): the loop ends after the
\* last prompt or when exit is set; a cancelled context sets exit and
\* continues with the next prompt
BulkPrompt ==
    /\ bulkPc = "prompt"
    /\ IF bulkExit \/ prompt > Len(inputs[group])
       THEN bulkPc' = "close" /\ UNCHANGED <<bulkExit, prompt>>
       ELSE IF bulkCtx = "cancelled"
       THEN bulkExit' = TRUE /\ prompt' = prompt + 1 /\ UNCHANGED bulkPc
       ELSE bulkPc' = "write" /\ UNCHANGED <<bulkExit, prompt>>
    /\ UNCHANGED <<inputs, group, bulkCtx, chats, pipeCur, pipeWait, msgs,
                   output, bulkRet, outFile>>
    /\ UNCHANGED notBulkVars

\* chat.Write([]byte(prmpt)) (lines 465-468): on success the chat has a
\* reply of n bytes and a goroutine about to write it to the pipe
BulkWrite(ok, n) ==
    /\ bulkPc = "write"
    /\ IF ok
       THEN /\ pipeWait' = pipeWait \cup
                   {[chat |-> chats, to |-> prompt, len |-> n, off |-> 0]}
            /\ bulkPc' = "read"
            /\ UNCHANGED bulkRet
       ELSE /\ BulkFail("couldn't write message")
            /\ UNCHANGED pipeWait
    /\ UNCHANGED <<inputs, group, prompt, bulkCtx, bulkExit, chats, pipeCur,
                   msgs, output, outFile>>
    /\ UNCHANGED notBulkVars

\* pipeReader.Read(buf) on the reply r that the pipe serves: the bytes
\* read, and what is left of the reply
Chunk(r) ==
    [chat |-> r.chat, to |-> r.to, len |-> r.len, off |-> r.off,
     n |-> IF r.len - r.off > ReadBufSize THEN ReadBufSize
           ELSE r.len - r.off]

Rest(r) ==
    IF r.len - r.off > ReadBufSize
    THEN <<[r EXCEPT !.off = r.off + ReadBufSize]>>
    ELSE <<>>

\* a variant of BulkRead that stores the reply under the next prompt
BulkReadShifted(ok) ==
    /\ bulkPc = "read"
    /\ IF ok
       THEN /\ \E r \in (IF pipeCur # <<>> THEN {pipeCur[1]} ELSE pipeWait) :
                  /\ msgs' = Append(msgs,
                       [in |-> inputs[group][IF prompt < Len(inputs[group])
                                              THEN prompt + 1 ELSE prompt],
                        out |-> Chunk(r)])
                  /\ pipeCur' = Rest(r)
                  /\ pipeWait' = pipeWait \ {r}
            /\ prompt' = prompt + 1
            /\ bulkPc' = "prompt"
            /\ UNCHANGED bulkRet
       ELSE /\ BulkFail("couldn't read message")
            /\ UNCHANGED <<pipeCur, pipeWait, msgs, prompt>>
    /\ UNCHANGED <<inputs, group, bulkCtx, bulkExit, chats, output, outFile>>
    /\ UNCHANGED notBulkVars

\* chat.Read(buf) and the append to msgs (lines 471-479): the pipe goes on
\* with the reply it is serving, or takes one of the waiting replies
BulkRead(ok) ==
    /\ bulkPc = "read"
    /\ IF ok
       THEN /\ \E r \in (IF pipeCur # <<>> THEN {pipeCur[1]} ELSE pipeWait) :
                  /\ msgs' = Append(msgs, [in |-> inputs[group][prompt],
                                           out |-> Chunk(r)])
                  /\ pipeCur' = Rest(r)
                  /\ pipeWait' = pipeWait \ {r}
            /\ prompt' = prompt + 1
            /\ bulkPc' = "prompt"
            /\ UNCHANGED bulkRet
       ELSE /\ BulkFail("couldn't read message")
            /\ UNCHANGED <<pipeCur, pipeWait, msgs, prompt>>
    /\ UNCHANGED <<inputs, group, bulkCtx, bulkExit, chats, output, outFile>>
    /\ UNCHANGED notBulkVars

\* close() and output = append(output, msgs) (lines 481-482): the close
\* function of a bing or chatgpt chat evaluates c.Close without calling it
\* and that of an openai chat is empty, so the chat stays as it is
BulkClose ==
    /\ bulkPc = "close"
    /\ output' = Append(output, msgs)
    /\ group' = group + 1
    /\ bulkPc' = "group"
    /\ UNCHANGED <<inputs, prompt, bulkCtx, bulkExit, chats, pipeCur,
                   pipeWait, msgs, bulkRet, outFile>>
    /\ UNCHANGED notBulkVars

\* lines 484-495: the output is marshalled and written to the output file
BulkMarshal(ok) ==
    /\ bulkPc = "marshal"
    /\ IF ok
       THEN outFile' = output /\ bulkRet' = "nil"
       ELSE outFile' = outFile /\ bulkRet' = "couldn't write output"
    /\ bulkPc' = "done"
    /\ UNCHANGED <<inputs, group, prompt, bulkCtx, bulkExit, chats, pipeCur,
                   pipeWait, msgs, output>>
    /\ UNCHANGED notBulkVars

\* the context handed to Bulk is cancelled
BulkCancel ==
    /\ bulkCtx = "live"
    /\ bulkPc # "done"
    /\ bulkCtx' = "cancelled"
    /\ UNCHANGED <<inputs, group, prompt, bulkExit, chats, pipeCur, pipeWait,
                   msgs, output, bulkPc, bulkRet, outFile>>
    /\ UNCHANGED notBulkVars

NextBulk ==
    \/ \E ok \in BOOLEAN : BulkGroup(ok)
    \/ BulkPrompt
    \/ \E ok \in BOOLEAN, n \in ReplyLens : BulkWrite(ok, n)
    \/ \E ok \in BOOLEAN : BulkRead(ok)
    \/ BulkClose
    \/ \E ok \in BOOLEAN : BulkMarshal(ok)
    \/ BulkCancel

SpecBulk == InitBulk /\ [][NextBulk]_vars

\* the pair holds prompt p of group g and, whole, the reply of the chat of
\* the group to that prompt
IsPairOf(pair, g, p) ==
    /\ pair.in = inputs[g][p]
    /\ pair.out.chat = g /\ pair.out.to = p
    /\ pair.out.off = 0 /\ pair.out.n = pair.out.len

\* the pair holds prompt p of group g and what the chat of the group had
\* to read right after the prompt was written
IsReadOf(pair, g, p) ==
    /\ pair.in = inputs[g][p]
    /\ pair.out.chat = g
    /\ pair.out.n <= ReadBufSize

\* every reply read in the group so far fit the buffer of Read
AllFit(ms) == \A p \in DOMAIN ms : ms[p].out.len <= ReadBufSize

BlockedInLock(p) == pc[p] = "locking" /\ lck

\* In addition to SpecLockFair, time passes and a caller of l.lck.Lock()
\* gets the mutex when it is free again and again (a sync.Mutex hands the
\* mutex to a waiter that starves).  How long a holder keeps the gate
\* before it invokes the release closure is the holder's decision: it is
\* inside the operation the gate protects, a Write waiting for its reply.
SpecLockFairAcquire ==
    /\ SpecLockFair
    /\ WF_vars(Tick)
    /\ \A p \in Callers : SF_vars(\E r \in JitterSteps : Acquire(p, r))

\* C24: once the shared context is cancelled, an operation that is blocked
\* returns a cancellation error without waiting for the blocking event; for
\* a caller waiting to acquire the rate limit: a caller that is blocked in
\* Lock with its context cancelled leaves Lock, whether or not the holder
\* ever releases the gate.
C24_BlockedLockReturns ==
    \A p \in Callers : (BlockedInLock(p) /\ cancelled[p]) ~> (pc[p] # "locking")

(***************************************************************************)
(* Cancellation and a pending Read of the bing connection.                 *)
(***************************************************************************)
\* C25: cancelling the context of the connection tears down the socket,
\* and a Read that was blocked waiting for a reply when the context was
\* cancelled returns with a cancellation error: no socket stays open under
\* a cancelled context and no Read ends with another error than that of
\* the context.
C25_CancelEndsRead ==
    /\ connCtx = "cancelled" => ws # "open"
    /\ rpc = "returned" => rres \in {"ok", "errCtx"}

(***************************************************************************)
(* Termination of Sum.                                                     *)
(***************************************************************************)
\* C26: for every history, the empty one included, and every policy, Sum
\* returns a message sequence or an error: the pruning loop never slices
\* past an empty rest.
C26_SumReturns == sumOut.status \in {"none", "ok", "error"}

(***************************************************************************)
(* command.Parse on replies that are not one well-formed array: brackets   *)
(* missing, elements that are no objects, elements that are no JSON and    *)
(* elements written without a comma between them.                          *)
(***************************************************************************)
\* largest number of elements between the brackets of such a reply
MaxItems == 2

\* the elements: a JSON value, or a raw text that is no JSON
Json(val) == [json |-> TRUE, val |-> val, text |-> Render(val, <<>>)]
Raw(cs) == [json |-> FALSE, val |-> JNull, text |-> cs]

PlainItems ==
    { Json(JObj(<<[k |-> talk, val |-> JStr(<<"h", "i">>)]>>)),
      Json(JObj(<<[k |-> bash, val |-> JStr(<<"l", "s">>)]>>)),
      Json(JNum(<<"5">>)),
      Json(JStr(<<"{", "x", "}">>)),
      Raw(<<"{", "b", "a", "d", "}">>) }

\* objects whose value has braces of its own: a nested object and a string
\* with a closing brace
BracedItems ==
    { Json(JObj(<<[k |-> talk,
                   val |-> JObj(<<[k |-> <<"a">>, val |-> JStr(<<"b">>)]>>)]>>)),
      Json(JObj(<<[k |-> talk, val |-> JStr(<<"a", "}", "b">>)]>>)) }

\* how a reply is put together
Shapes ==
    [open : BOOLEAN, close : BOOLEAN, sep : {<<",">>, <<" ">>},
     items : SeqsUpTo(PlainItems \cup BracedItems, MaxItems)]

\* the text of a reply of that shape, with prose around it
ShapeText(s) ==
    <<"o", "k", " ">>
      \o (IF s.open THEN <<"[">> ELSE <<>>)
      \o Join([j \in 1..Len(s.items) |-> s.items[j].text], s.sep)
      \o (IF s.close THEN <<"]">> ELSE <<>>)
      \o <<" ", "d", "o", "n", "e">>

InitTexts ==
    /\ src \in Shapes
    /\ input = ShapeText(src)
    /\ parsed = NotParsed
    /\ LockIdle
    /\ MemIdle
    /\ ExecIdle
    /\ BingIdle
    /\ AutoIdle
    /\ BulkIdle
    /\ RwIdle

SpecTexts == InitTexts /\ [][NextParse]_vars

\* the element is a JSON object
IsObject(it) == it.json /\ it.val.t = "obj"

\* the bracketed text is a JSON array
IsArray(s) ==
    /\ \A j \in 1..Len(s.items) : s.items[j].json
    /\ Len(s.items) > 1 => s.sep = <<",">>

\* the bracketed text decodes as an array of objects
IsArrayOfObjects(s) ==
    IsArray(s) /\ \A j \in 1..Len(s.items) : IsObject(s.items[j])

\* the requests of the objects among the elements, in textual order
ObjectRequests(s) ==
    LET objs == SelectSeq(s.items, IsObject)
    IN  [j \in 1..Len(objs) |->
            [name |-> objs[j].val.v[1].k,
             args |-> IF objs[j].val.v[1].val.t = "arr"
                      THEN objs[j].val.v[1].val.v
                      ELSE <<objs[j].val.v[1].val>>]]

\* no element has braces inside its value
NoBraced(s) == \A j \in 1..Len(s.items) : s.items[j] \notin BracedItems

\* C27: Parse returns an error and no requests when the text has no "[" or
\* no "]", or when the bracketed text fails to decode and the search for
\* single objects finds none that decodes; when the search finds at least
\* one, Parse succeeds with the requests of the objects that decode, in
\* textual order, and skips the others.  (Objects with braces inside
\* their value are left to C28.)
C27_ErrorOrFallback ==
    parsed.status # "none" =>
        /\ (~src.open \/ ~src.close) => parsed = ParseError
        /\ (src.open /\ src.close /\ ~IsArrayOfObjects(src) /\ NoBraced(src)) =>
              IF ObjectRequests(src) = <<>>
              THEN parsed = ParseError
              ELSE parsed = [status |-> "ok", cmds |-> ObjectRequests(src)]

\* C28: in the search for single objects, an object whose value contains
\* braces, a nested object or a string with "}", is found as one whole
\* object and yields its request.
C28_BraceBalanced ==
    (/\ parsed.status # "none"
     /\ src.open /\ src.close /\ ~IsArrayOfObjects(src)) =>
        \A i \in 1..Len(src.items) :
            src.items[i] \in BracedItems =>
                /\ parsed.status = "ok"
                /\ \E j \in 1..Len(parsed.cmds) :
                      /\ parsed.cmds[j].name = src.items[i].val.v[1].k
                      /\ parsed.cmds[j].args = <<src.items[i].val.v[1].val>>

(***************************************************************************)
(* command.runner on batches of requests whose handlers fail: no argument, *)
(* an empty first argument, or an operation that fails.                    *)
(***************************************************************************)
\* largest number of requests in such a batch
MaxCalls == 2

\* the arguments: none, an empty first one, a usable one
ArgChoices == {<<>>, <<JStr(<<>>)>>, <<JStr(<<"x">>)>>}

HandlerChoices ==
    {[name |-> n, args |-> a] : n \in {bash, bing, read, write},
                                a \in ArgChoices}
      \cup { [name |-> talk, args |-> <<JStr(<<"h", "i">>)>>],
             [name |-> think, args |-> <<>>],
             [name |-> <<"f", "o", "o">>, args |-> <<JStr(<<"x">>)>>],
             [name |-> exit, args |-> <<>>] }

InitHandlers ==
    /\ reqs \in SeqsUpTo(HandlerChoices, MaxCalls)
    /\ execPc = "idle"
    /\ ExecStart
    /\ LockIdle
    /\ MemIdle
    /\ ParseIdle
    /\ BingIdle
    /\ AutoIdle
    /\ BulkIdle
    /\ RwIdle

SpecHandlers == InitHandlers /\ [][NextExec]_vars

\* the registered requests the loop of execute has passed
Passed == RegisteredOf(SubSeq(reqs, 1, idx - 1))

\* C29: the result list of a batch holds, in request order, exactly one
\* entry, keyed by the canonical name, for every request whose canonical
\* name is registered and whose handler returned a value that is not nil,
\* error strings included, and no other entry; no handler returns nil, so
\* every registered request, a talk or think request among them, has its
\* entry.
C29_OneEntryPerRequest ==
    /\ Len(results) = Len(Passed)
    /\ \A j \in 1..Len(results) :
          /\ results[j].k = Passed[j].name
          /\ results[j].val \in RunResults(Passed[j].name, Passed[j].args)
          /\ results[j].val # Nil
          /\ Passed[j].name \in {talk, think} =>
                results[j].val = JStr(<<"received ">> \o Passed[j].name
                                        \o <<" command">>)

\* C29 witness: execute returned for a batch of a think request and a bash
\* request without arguments; the results are the entry of think and the
\* entry of bash with its error string.
C29_Witness ==
    /\ execPc = "done"
    /\ reqs = <<[name |-> think, args |-> <<>>],
                [name |-> bash, args |-> <<>>]>>
    /\ Len(results) = 2
    /\ results[1].k = think
    /\ results[2] = [k |-> bash, val |-> JStr(<<"missing bash command">>)]

\* the text a handler reports when it is given no argument
MissingText(name) ==
    CASE name = bash -> "missing bash command"
      [] name = bing -> "missing bing message"
      [] name = read -> "missing read file path"
      [] name = write -> "missing write file arguments"

\* the text a handler reports when its first argument is empty
EmptyText(name) ==
    CASE name = bash -> "empty bash command"
      [] name = bing -> "empty bing message"
      [] name = read -> "empty read file path"
      [] name = write -> "empty write file path"

ExchangeFailed(w) == wpc[w] = "stage" /\ ~wrap[w].final

\* C31: when the socket fails or is closed after the frame was sent and
\* before the final frame, Write returns an error, not success, sends no
\* second frame for the message and stages no reply for Read.
C31_FailureSurfaced ==
    [][\A w \in Writers :
          (ExchangeFailed(w) /\ wpc'[w] # "stage") =>
              /\ wpc'[w] = "returned"
              /\ wres'[w] \notin {"none", "ok"}
              /\ staged' = staged
              /\ frames' = frames
      ]_vars

(***************************************************************************)
(* The order of one step of the Auto loop.                                 *)
(***************************************************************************)
\* Auto moves from position a to position b in this step
AutoMoves(a, b) == autoPc = a /\ autoPc' = b

\* C34: in every step of the loop the order is Write(prompt), then
\* Read(reply), then Run(reply); the first prompt written is the configured
\* one, every later prompt is the JSON serialization of the result list
\* that Run returned in the step before; a Write or Read error ends the
\* loop with an error.
C34_StepOrder ==
    [][/\ autoPc' # autoPc =>
             \/ AutoMoves("check", "write") \/ AutoMoves("check", "done")
             \/ AutoMoves("write", "read") \/ AutoMoves("write", "done")
             \/ AutoMoves("read", "run") \/ AutoMoves("read", "done")
             \/ AutoMoves("run", "check") \/ AutoMoves("run", "panic")
       /\ writes' # writes =>
             /\ autoPc = "write"
             /\ writes' = writes + 1
             /\ written' = IF writes = 0 THEN Prompt
                           ELSE Serialize(lastRun.result)
             /\ writes > 0 => lastRun.parse \in {"ok", "error"}
       /\ AutoMoves("read", "run") => lastRun' = lastRun
       /\ AutoMoves("run", "check") =>
             /\ lastRun' \in Run(recv)
             /\ send' = Serialize(lastRun'.result)
       /\ (AutoMoves("write", "done") \/ AutoMoves("read", "done")) =>
             /\ autoRet'.err # "nil"
             /\ writes' = steps
      ]_vars

\* the loop has read the reply to its second prompt, the serialization of
\* the result of the talk command of the first reply
C34_Witness ==
    /\ autoPc = "run"
    /\ writes = 2
    /\ lastRun.parse = "ok"
    /\ lastRun.ran = <<talk>>
    /\ written = Serialize(lastRun.result)
    /\ written # Prompt

(***************************************************************************)
(* Claims on the exchange mutex of a bing connection.                      *)
(***************************************************************************)
\* the writer holds the rate limit and waits in send for the exchange mutex
WaitsForExchange(w) == wpc[w] = "send" /\ connLck

\* C36: after a Write whose send failed, a later Write on the connection
\* still terminates: the exchange mutex is released on the error path of
\* send, so a Write that waits for the mutex (holding the rate limit of the
\* client) waits for an exchange in flight, whose Worker releases it.
C36_SendErrorReleases ==
    /\ \A w \in Writers : WaitsForExchange(w) => InFlight # {}
    /\ (\A w \in Writers : wpc[w] \notin {"wait", "stage"}) /\ InFlight = {}
           => ~connLck

(***************************************************************************)
(* command.Parse on texts of brackets and braces in any order.             *)
(***************************************************************************)
\* largest length of such a text
MaxChars == 4

\* the characters of the texts
BracketChars == {"[", "]", "{", "}", " "}

\* every text of these characters up to the largest length
BracketTexts == SeqsUpTo(BracketChars, MaxChars)

InitBrackets ==
    /\ src \in BracketTexts
    /\ input = src
    /\ parsed = NotParsed
    /\ LockIdle
    /\ MemIdle
    /\ ExecIdle
    /\ BingIdle
    /\ AutoIdle
    /\ BulkIdle
    /\ RwIdle

SpecBrackets == InitBrackets /\ [][NextParse]_vars

\* the text has both brackets and its last "]" is before its first "["
LastBeforeFirst(cs) ==
    /\ \E i \in DOMAIN cs : cs[i] = "]"
    /\ \E j \in DOMAIN cs : cs[j] = "["
    /\ \A i, j \in DOMAIN cs : (cs[i] = "]" /\ cs[j] = "[") => i < j

\* C37: for every text Parse returns a request list or an error and never
\* crashes; when the last "]" of the text is before its first "[" it
\* returns an error.
C37_NeverCrashes ==
    parsed.status # "none" =>
        /\ parsed.status \in {"ok", "error"}
        /\ LastBeforeFirst(input) => parsed = ParseError

(***************************************************************************)
(* Requests per object of the bracketed text.                              *)
(***************************************************************************)
\* C38: every JSON object of the bracketed text contributes at most one
\* request: when the decode of the array reports an error, the objects the
\* search for single objects finds are not added on top of those the
\* decode has already stored.
C38_OneRequestPerObject ==
    parsed.status = "ok" =>
        /\ Len(parsed.cmds) <= Len(ObjectRequests(src))
        /\ \A r \in {parsed.cmds[j] : j \in DOMAIN parsed.cmds} :
              Len(SelectSeq(parsed.cmds, LAMBDA c : c = r))
                 <= Len(SelectSeq(ObjectRequests(src), LAMBDA c : c = r))

(***************************************************************************)
(* The exit request inside a batch.                                        *)
(***************************************************************************)
\* C39: execute runs the handlers of all registered requests of a batch in
\* order, whether or not an exit request is among them: the exit handler
\* calls the exit function, which cancels the context of the loop, and the
\* requests after it are still run and their results collected.
C39_ExitDoesNotStopBatch ==
    /\ Len(ran) = Len(Passed)
    /\ \A j \in 1..Len(ran) :
          /\ ran[j].name = Passed[j].name
          /\ ran[j].args = Passed[j].args
    /\ Len(results) = Len(ran)
    /\ exited <=> \E j \in 1..Len(ran) : ran[j].name = exit
    /\ execPc = "done" => idx = Len(reqs) + 1

\* a batch of an exit request followed by a shell command has been
\* executed: the exit function was called and the shell command ran after
C39_Witness ==
    /\ execPc = "done"
    /\ exited
    /\ Len(ran) = 2
    /\ ran[1].name = exit
    /\ ran[2].name = bash
    /\ Len(results) = 2
    /\ results[2].k = bash

(***************************************************************************)
(* pkg/openai: rw.Write, rw.Read and rw.Close on one chat of the client,   *)
(* whose memory is a fixedMemory.  The callers of Write are goroutines of  *)
(* the program; Auto, Chat and Bulk use one, a chat handed to several      *)
(* goroutines has more.                                                    *)
(***************************************************************************)
\* largest number of calls of Write
MaxWrites == 2

\* largest number of 429 answers of the backend
MaxRetries == 1

\* the contents of the prompts: one that fits the budget and one that,
\* with the reserve for the response, does not
PromptContents == {"short", "long"}

\* the memories the program builds: NewFixedMemory(0, max) in Chat mode and
\* NewFixedMemory(1, max) in Auto mode, without and with a budget
RwKeepFirsts == {0, 1}
RwMaxTokens == {0, 1500}

\* what ChatCompletion can return: a completion, the API error 429, any
\* other error, a completion without choices
Outcomes == {"ok", "429", "error", "noChoices"}

\* the chat right after Client.Chat, used by the goroutines users
InitRw(users) ==
    /\ rwUsers = users
    /\ RwStart
    /\ keepFirst \in RwKeepFirsts
    /\ maxTokens \in RwMaxTokens
    /\ MemStart
    /\ LockIdle
    /\ ParseIdle
    /\ ExecIdle
    /\ BingIdle
    /\ AutoIdle
    /\ BulkIdle

\* the message Write builds from b, and the message it builds from the
\* completion; id numbers the calls of Write
PromptMessage(c, k) == [role |-> "user", content |-> c, id |-> k]
ReplyMessage(k) == [role |-> "assistant", content |-> "short", id |-> k]

\* Write returns err from position "at"
RwFail(w, err, at) ==
    /\ rwRes' = [rwRes EXCEPT ![w] = err]
    /\ rwPc' = [rwPc EXCEPT ![w] = at]

\* Write is called with a prompt of content c: a cancelled r.ctx returns
\* its error right away; else the message is built and r.memory.Add reads
\* m.messages
RwCall(w, c) ==
    /\ w \in rwUsers
    /\ rwPc[w] = "idle"
    /\ rwCalls < MaxWrites
    /\ rwCalls' = rwCalls + 1
    /\ IF rwCtx # "live"
       THEN /\ RwFail(w, "errCtx", "returned")
            /\ UNCHANGED <<rwPrompt, rwSlice>>
       ELSE /\ rwPrompt' = [rwPrompt EXCEPT ![w] = PromptMessage(c, rwCalls + 1)]
            /\ rwSlice' = [rwSlice EXCEPT ![w] = messages]
            /\ rwPc' = [rwPc EXCEPT ![w] = "add"]
            /\ rwRes' = rwRes
    /\ UNCHANGED <<rwUsers, rwCtx, rwGate, rwMessages, requests, rwStaged,
                   delivered, completed>>
    /\ UNCHANGED memVars
    /\ UNCHANGED notRwVars

\* m.messages = append(m.messages, msg) as the goroutine that read the
\* slice completes it.  With room in the array the message is written in
\* place behind the elements of the slice, as they are now; without room
\* the elements are copied to a new array.  Between the read and the store
\* another goroutine may have stored its own slice or moved elements.
AppendOutcomes(slice, msg) ==
    {Append(slice, msg)}
      \cup (IF Len(messages) >= Len(slice)
            THEN {Append(SubSeq(messages, 1, Len(slice)), msg)}
            ELSE {})

\* r.memory.Add of the prompt stores the grown slice (it never fails)
RwAdd(w) ==
    /\ rwPc[w] = "add"
    /\ messages' \in AppendOutcomes(rwSlice[w], rwPrompt[w])
    /\ added' = Append(added, rwPrompt[w])
    /\ rwPc' = [rwPc EXCEPT ![w] = "sum"]
    /\ UNCHANGED <<rwUsers, rwCtx, rwGate, rwRes, rwPrompt, rwSlice, rwMessages,
                   requests, rwStaged, delivered, completed, rwCalls>>
    /\ UNCHANGED <<keepFirst, maxTokens, sumOut>>
    /\ UNCHANGED notRwVars

\* a variant of RwSum that takes the prompt out of the memory when Sum
\* fails
RwSumRollsBack(w) ==
    /\ rwPc[w] = "sum"
    /\ LET r == SumRun(messages, keepFirst, maxTokens)
       IN  /\ messages' = IF r.status = "ok" THEN r.array
                          ELSE SubSeq(r.array, 1, Len(r.array) - 1)
           /\ sumOut' = [status |-> r.status, out |-> r.out,
                         tokens |-> r.tokens]
           /\ IF r.status = "ok"
              THEN /\ rwMessages' = [rwMessages EXCEPT ![w] = r.out]
                   /\ rwPc' = [rwPc EXCEPT ![w] = "gate"]
                   /\ rwRes' = rwRes
              ELSE /\ rwMessages' = rwMessages
                   /\ RwFail(w, "errSum", "returned")
    /\ UNCHANGED <<rwUsers, rwCtx, rwGate, rwPrompt, rwSlice, requests,
                   rwStaged, delivered, completed, rwCalls>>
    /\ UNCHANGED <<keepFirst, maxTokens, added>>
    /\ UNCHANGED notRwVars

\* sum, err := r.memory.Sum(): an error is returned to the caller, else
\* the sum becomes the messages of the request
RwSum(w) ==
    /\ rwPc[w] = "sum"
    /\ LET r == SumRun(messages, keepFirst, maxTokens)
       IN  /\ messages' = r.array
           /\ sumOut' = [status |-> r.status, out |-> r.out,
                         tokens |-> r.tokens]
           /\ IF r.status = "ok"
              THEN /\ rwMessages' = [rwMessages EXCEPT ![w] = r.out]
                   /\ rwPc' = [rwPc EXCEPT ![w] = "gate"]
                   /\ rwRes' = rwRes
              ELSE /\ rwMessages' = rwMessages
                   /\ RwFail(w, "errSum", "returned")
    /\ UNCHANGED <<rwUsers, rwCtx, rwGate, rwPrompt, rwSlice, requests,
                   rwStaged, delivered, completed, rwCalls>>
    /\ UNCHANGED <<keepFirst, maxTokens, added>>
    /\ UNCHANGED notRwVars

\* unlock := r.rateLimit.Lock(r.ctx): blocks while the mutex is locked
RwLock(w) ==
    /\ rwPc[w] = "gate"
    /\ ~rwGate
    /\ rwGate' = TRUE
    /\ rwPc' = [rwPc EXCEPT ![w] = "request"]
    /\ UNCHANGED <<rwUsers, rwCtx, rwRes, rwPrompt, rwSlice, rwMessages,
                   requests, rwStaged, delivered, completed, rwCalls>>
    /\ UNCHANGED memVars
    /\ UNCHANGED notRwVars

\* the number of 429 answers so far
Retries == Len(SelectSeq(requests, LAMBDA q : q.answer = "429"))

\* completion, err = r.client.ChatCompletion(r.ctx, *request): on 429 the
\* loop goes to its cooldown, any other error and a completion without
\* choices are returned through the deferred unlock; with a completion
\* r.memory.Add of the response reads m.messages.  A request on a
\* cancelled context fails.
RwRequest(w, o) ==
    /\ rwPc[w] = "request"
    /\ o # "error" => rwCtx = "live"
    /\ o = "429" => Retries < MaxRetries
    /\ requests' = Append(requests, [id |-> rwPrompt[w].id,
                                     messages |-> rwMessages[w],
                                     answer |-> o])
    /\ CASE o = "429" ->
              /\ rwPc' = [rwPc EXCEPT ![w] = "cooldown"]
              /\ UNCHANGED <<rwRes, rwSlice>>
         [] o = "error" ->
              RwFail(w, "errCompletion", "unlock") /\ rwSlice' = rwSlice
         [] o = "noChoices" ->
              RwFail(w, "errNoChoices", "unlock") /\ rwSlice' = rwSlice
         [] o = "ok" ->
              /\ rwPc' = [rwPc EXCEPT ![w] = "reply"]
              /\ rwSlice' = [rwSlice EXCEPT ![w] = messages]
              /\ rwRes' = rwRes
    /\ UNCHANGED <<rwUsers, rwCtx, rwGate, rwPrompt, rwMessages, rwStaged,
                   delivered, completed, rwCalls>>
    /\ UNCHANGED memVars
    /\ UNCHANGED notRwVars

\* a variant of RwCooldown that waits for the timer only
RwCooldownTimerOnly(w) ==
    /\ rwPc[w] = "cooldown"
    /\ rwPc' = [rwPc EXCEPT ![w] = "request"]
    /\ UNCHANGED <<rwUsers, rwCtx, rwGate, rwRes, rwPrompt, rwSlice, rwMessages,
                   requests, rwStaged, delivered, completed, rwCalls>>
    /\ UNCHANGED memVars
    /\ UNCHANGED notRwVars

\* select on time.After(30 * time.Second) and r.ctx.Done(): the goroutine
\* is woken by whichever comes first; after the timer the loop continues
\* with the same request, after Done Write returns r.ctx.Err() through
\* the deferred unlock
RwCooldown(w) ==
    /\ rwPc[w] = "cooldown"
    /\ IF rwCtx # "live"
       THEN RwFail(w, "errCtx", "unlock")
       ELSE /\ rwPc' = [rwPc EXCEPT ![w] = "request"]
            /\ rwRes' = rwRes
    /\ UNCHANGED <<rwUsers, rwCtx, rwGate, rwPrompt, rwSlice, rwMessages,
                   requests, rwStaged, delivered, completed, rwCalls>>
    /\ UNCHANGED memVars
    /\ UNCHANGED notRwVars

\* r.memory.Add of the response stores the grown slice; then the goroutine
\* that writes the response to the pipe is started (on a closed pipe its
\* write fails and is only logged) and Write returns len(b), nil through
\* the deferred unlock
RwReply(w) ==
    /\ rwPc[w] = "reply"
    /\ messages' \in AppendOutcomes(rwSlice[w], ReplyMessage(rwPrompt[w].id))
    /\ added' = Append(added, ReplyMessage(rwPrompt[w].id))
    /\ rwStaged' = IF rwCtx = "closed" THEN rwStaged
                   ELSE rwStaged \cup {rwPrompt[w].id}
    /\ completed' = Append(completed, rwPrompt[w].id)
    /\ RwFail(w, "ok", "unlock")
    /\ UNCHANGED <<rwUsers, rwCtx, rwGate, rwPrompt, rwSlice, rwMessages,
                   requests, delivered, rwCalls>>
    /\ UNCHANGED <<keepFirst, maxTokens, sumOut>>
    /\ UNCHANGED notRwVars

\* the deferred unlock(): waits for its timer or r.ctx.Done() and unlocks
\* the rate limit; the caller of Write gets its result
RwUnlock(w) ==
    /\ rwPc[w] = "unlock"
    /\ rwGate' = FALSE
    /\ rwPc' = [rwPc EXCEPT ![w] = "returned"]
    /\ UNCHANGED <<rwUsers, rwCtx, rwRes, rwPrompt, rwSlice, rwMessages,
                   requests, rwStaged, delivered, completed, rwCalls>>
    /\ UNCHANGED memVars
    /\ UNCHANGED notRwVars

\* the caller of Write goes on; the goroutine may call Write again
RwReturn(w) ==
    /\ rwPc[w] = "returned"
    /\ rwPc' = [rwPc EXCEPT ![w] = "idle"]
    /\ rwRes' = [rwRes EXCEPT ![w] = "none"]
    /\ rwPrompt' = [rwPrompt EXCEPT ![w] = NoMessage]
    /\ rwSlice' = [rwSlice EXCEPT ![w] = <<>>]
    /\ rwMessages' = [rwMessages EXCEPT ![w] = <<>>]
    /\ UNCHANGED <<rwUsers, rwCtx, rwGate, requests, rwStaged, delivered,
                   completed, rwCalls>>
    /\ UNCHANGED memVars
    /\ UNCHANGED notRwVars

\* what a Read returned: the reply of the Write numbered id, or an error
ReadOf(id) == [id |-> id, err |-> "nil"]
ReadErr == [id |-> 0, err |-> "errCtx"]

\* Read: a cancelled r.ctx returns its error; else r.pipeReader.Read waits
\* for one of the goroutines that write to the pipe and returns its
\* response: which of several waiting goroutines gets the pipe first is
\* up to the scheduler
RwRead ==
    /\ Len(delivered) < MaxWrites
    /\ IF rwCtx # "live"
       THEN /\ delivered' = Append(delivered, ReadErr)
            /\ rwStaged' = rwStaged
       ELSE \E s \in rwStaged :
               /\ rwStaged' = rwStaged \ {s}
               /\ delivered' = Append(delivered, ReadOf(s))
    /\ UNCHANGED <<rwUsers, rwCtx, rwGate, rwPc, rwRes, rwPrompt, rwSlice,
                   rwMessages, requests, completed, rwCalls>>
    /\ UNCHANGED memVars
    /\ UNCHANGED notRwVars

\* the context given to Chat is cancelled by its owner
RwCancel ==
    /\ rwCtx = "live"
    /\ rwCtx' = "cancelled"
    /\ UNCHANGED <<rwUsers, rwGate, rwPc, rwRes, rwPrompt, rwSlice, rwMessages,
                   requests, rwStaged, delivered, completed, rwCalls>>
    /\ UNCHANGED memVars
    /\ UNCHANGED notRwVars

\* Close: r.cancel() and r.pipeReader.Close(), which fails the pending
\* writes to the pipe
RwClose ==
    /\ rwCtx # "closed"
    /\ rwCtx' = "closed"
    /\ rwStaged' = {}
    /\ UNCHANGED <<rwUsers, rwGate, rwPc, rwRes, rwPrompt, rwSlice, rwMessages,
                   requests, delivered, completed, rwCalls>>
    /\ UNCHANGED memVars
    /\ UNCHANGED notRwVars

NextOpenai ==
    \/ \E w \in RwWriters, c \in PromptContents : RwCall(w, c)
    \/ \E w \in RwWriters : RwAdd(w)
    \/ \E w \in RwWriters : RwSum(w)
    \/ \E w \in RwWriters : RwLock(w)
    \/ \E w \in RwWriters, o \in Outcomes : RwRequest(w, o)
    \/ \E w \in RwWriters : RwCooldown(w)
    \/ \E w \in RwWriters : RwReply(w)
    \/ \E w \in RwWriters : RwUnlock(w)
    \/ \E w \in RwWriters : RwReturn(w)
    \/ RwRead
    \/ RwCancel
    \/ RwClose

\* one goroutine writes to the chat, as Auto, Chat and Bulk do
InitOpenai == InitRw({1})

SpecOpenai == InitOpenai /\ [][NextOpenai]_vars

\* two goroutines write to the same chat
InitOpenaiShared == InitRw(RwWriters)

SpecOpenaiShared == InitOpenaiShared /\ [][NextOpenai]_vars

(***************************************************************************)
(* Claims on rw.Write of the openai chat.                                  *)
(***************************************************************************)
\* the writer holds the rate limit: from Lock to the deferred unlock
RwHolds(w) == rwPc[w] \in {"request", "cooldown", "reply", "unlock"}

\* a ChatCompletion call is made in this step
Requested == Len(requests') = Len(requests) + 1
LastRequest == requests'[Len(requests')]

\* C32: when the backend answers 429, Write waits in its cooldown and then
\* makes the same request again, until an answer that is not 429; when the
\* context is cancelled during a cooldown, Write makes no further request
\* and returns the error of the context; whenever Write returns, the rate
\* limit it took is released.
C32_RetryLoop ==
    [][\A w \in RwWriters :
          /\ (rwPc[w] = "request" /\ rwPc'[w] # "request") =>
                /\ Requested
                /\ LastRequest.id = rwPrompt[w].id
                /\ LastRequest.messages = rwMessages[w]
                /\ \A i \in DOMAIN requests :
                      requests[i].id = LastRequest.id =>
                          /\ requests[i].answer = "429"
                          /\ requests[i].messages = LastRequest.messages
                /\ LastRequest.answer = "429" <=> rwPc'[w] = "cooldown"
                /\ LastRequest.answer = "429" => rwRes'[w] = "none"
          /\ (rwPc[w] = "cooldown" /\ rwPc'[w] # "cooldown") =>
                /\ ~Requested
                /\ IF rwCtx = "live"
                   THEN /\ rwPc'[w] = "request"
                        /\ rwMessages'[w] = rwMessages[w]
                        /\ rwRes'[w] = "none"
                   ELSE /\ rwPc'[w] = "unlock"
                        /\ rwRes'[w] = "errCtx"
          /\ (rwPc[w] # "returned" /\ rwPc'[w] = "returned") =>
                /\ rwRes'[w] # "none"
                /\ RwHolds(w) => ~rwGate'
          /\ (RwHolds(w) /\ ~RwHolds(w)') => rwPc'[w] = "returned"
          /\ rwGate' <=> \E v \in RwWriters : RwHolds(v)'
      ]_vars

\* a Write whose request was answered 429 has returned the error of the
\* context, cancelled during the cooldown, and the rate limit is free
C32_Witness ==
    \E w \in RwWriters :
        /\ rwPc[w] = "returned"
        /\ rwRes[w] = "errCtx"
        /\ Len(requests) = 1
        /\ requests[1].answer = "429"
        /\ requests[1].id = rwPrompt[w].id
        /\ ~rwGate

\* the messages Sum keeps whatever the budget
KeptFirst ==
    IF keepFirst > 0 /\ Len(messages) > keepFirst
    THEN SubSeq(messages, 1, keepFirst)
    ELSE <<>>

\* the prompt of the writer does not fit the budget even with every
\* message that may be pruned left out
OverBudget(w) ==
    /\ maxTokens > 0
    /\ Tokens(KeptFirst \o <<rwPrompt[w]>>) + ResponseReserve > maxTokens

\* C33: when Sum fails with the over-budget error, Write returns the error
\* without taking the rate limit, making a completion request or staging a
\* reply; the prompt it appended stays in the memory and no assistant
\* message is appended.
C33_SumErrorReturned ==
    [][\A w \in RwWriters :
          /\ (rwPc[w] = "sum" /\ rwPc'[w] # "sum") =>
                /\ OverBudget(w) <=> rwRes'[w] = "errSum"
                /\ OverBudget(w) =>
                      /\ rwPc'[w] = "returned"
                      /\ UNCHANGED <<rwGate, requests, rwStaged, completed,
                                     added>>
                      /\ Len(messages') = Len(messages)
                      /\ messages'[Len(messages')] = rwPrompt[w]
          /\ (rwPc[w] = "returned" /\ rwRes[w] = "errSum") =>
                /\ \A i \in DOMAIN requests : requests[i].id # rwPrompt[w].id
                /\ rwPrompt[w].id \notin rwStaged
                /\ \E i \in DOMAIN messages : messages[i] = rwPrompt[w]
                /\ \A i \in DOMAIN added :
                      added[i] # ReplyMessage(rwPrompt[w].id)
                /\ rwPc'[w] = "idle" => messages' = messages
      ]_vars

\* the second Write of the chat failed in Sum: its prompt is the last
\* message of the memory, behind the prompt and the reply of the first
C33_Witness ==
    \E w \in RwWriters :
        /\ rwPc[w] = "returned"
        /\ rwRes[w] = "errSum"
        /\ rwPrompt[w].id = 2
        /\ Len(messages) = 3
        /\ messages[3] = rwPrompt[w]
        /\ Len(requests) = 1
        /\ ~rwGate

\* the replies the Reads have returned, in order
DeliveredIds ==
    LET got == SelectSeq(delivered, LAMBDA d : d.err = "nil")
    IN  [i \in DOMAIN got |-> got[i].id]

\* C35: when two or more Writes on a chat have returned nil before any
\* Read, the Reads return their replies in the order of the Writes, each
\* once: no goroutine hands over the reply of a later Write before the
\* reply of an earlier one.
C35_RepliesInOrder ==
    /\ Len(DeliveredIds) <= Len(completed)
    /\ \A i \in DOMAIN DeliveredIds : DeliveredIds[i] = completed[i]

(***************************************************************************)
(* Claims on a chat whose Write is called by several goroutines.           *)
(***************************************************************************)
\* the writer is inside Write with its prompt built
RwInFlight(w) == rwPc[w] \notin {"idle", "returned"} /\ rwPrompt[w] # NoMessage

\* the stored messages of the exchanges 1..n, prompt then reply, in order
RECURSIVE PairsUpTo(_)
PairsUpTo(n) ==
    IF n = 0 THEN <<>>
    ELSE PairsUpTo(n - 1) \o
           <<[role |-> "user", id |-> n], [role |-> "assistant", id |-> n]>>

\* the role and the exchange of every stored message
StoredShape == [i \in DOMAIN messages |->
                   [role |-> messages[i].role, id |-> messages[i].id]]

\* C40: the memory operations of one Write (append the prompt, compute
\* Sum, append the reply) are atomic with respect to the other Writes on
\* the chat: the messages sent for a prompt never hold the prompt of
\* another Write in flight, and once every Write has returned nil the
\* stored history is the prompt/reply pairs in exchange order.
C40_MemoryAtomic ==
    /\ \A w, v \in RwWriters :
          (w # v /\ RwInFlight(w) /\ RwInFlight(v)) =>
              \A i \in DOMAIN rwMessages[w] :
                  rwMessages[w][i] # rwPrompt[v]
    /\ (/\ \A w \in RwWriters : rwPc[w] = "idle"
        /\ Len(completed) = rwCalls
        /\ maxTokens = 0) =>
          StoredShape = PairsUpTo(rwCalls)

=============================================================================
